---- MODULE Spec2Model ----
(***************************************************************************)
(* Model of the block-foundation calculator:                               *)
(*   core/static_analysis.py   StaticAnalysis                              *)
(*   core/dynamic_analysis.py  DynamicAnalysis                             *)
(*   core/utils.py             validate_parameters, convert_units,         *)
(*                             save_parameters, load_parameters            *)
(*   ui/main_window.py         MainWindow, with the panels it reads and    *)
(*                             the report generator it calls               *)
(*                                                                         *)
(* Numbers.  The static calculator only adds, subtracts, multiplies,       *)
(* divides and compares, so its floats are modelled by exact rationals     *)
(* [n, d] in lowest terms, with +infinity as the value float('inf').       *)
(* The dynamic calculator takes square roots; its derived quantities are   *)
(* modelled by a four-digit decimal floating point (see Fl below), and     *)
(* its frequencies by exact integers on a fixed grid.                      *)
(***************************************************************************)
EXTENDS Integers, Sequences, FiniteSets, TLC

VARIABLES
    sa,              \* the StaticAnalysis object (its fields)
    static_ret,      \* what the last call on sa returned
    da,              \* the DynamicAnalysis object (its fields)
    sweep,           \* the frame of calculate_response_curve (locals and position)
    dynamic_ret,     \* what the last call on da returned
    curves,          \* history: per domain, the first curve returned and how many since
    runs,            \* history: the first outcome of run_analysis on sa and on da
    params,          \* validate_parameters: the dict, as its items in order
    required_fields, \* validate_parameters: the list of required keys
    validate_ret,    \* what validate_parameters returned
    conversion,      \* convert_units: the arguments and what the call returned
    disk,            \* the files: what each path holds
    io,              \* the last save_parameters and the load_parameters after it
    heap,            \* the parameter dicts of the window, by reference
    window,          \* the MainWindow: its attributes, panels and result panel
    calculation,     \* the calculators run_calculation built last, and from what
    report,          \* the last call of generate_report
    events,          \* how many events the window has handled
    worker           \* a second thread calling methods of da

vars == <<sa, static_ret, da, sweep, dynamic_ret, curves, runs,
          params, required_fields, validate_ret, conversion, disk, io,
          heap, window, calculation, report, events, worker>>

staticVars == <<sa, static_ret>>
dynamicVars == <<da, sweep, dynamic_ret>>
historyVars == <<curves, runs>>
validationVars == <<params, required_fields, validate_ret>>
utilVars == <<conversion, disk, io>>
windowVars == <<heap, window, calculation, report>>
restVars == <<utilVars, windowVars, events, worker>>
otherVars == <<historyVars, validationVars, restVars>>

(***************************************************************************)
(* Exact rationals.                                                        *)
(***************************************************************************)
Abs(x) == IF x < 0 THEN -x ELSE x

RECURSIVE GCD(_, _)
GCD(a, b) == IF b = 0 THEN a ELSE GCD(b, a % b)

\* n/d in lowest terms with a positive denominator (d # 0)
Rat(n, d) ==
    LET g == GCD(Abs(n), Abs(d))
        s == IF d < 0 THEN -1 ELSE 1
    IN  [n |-> s * (n \div g), d |-> s * (d \div g)]

RInt(k) == [n |-> k, d |-> 1]

\* float('inf')
Inf == [n |-> 1, d |-> 0]

IsInf(x) == x.d = 0

RAdd(x, y) == Rat(x.n * y.d + y.n * x.d, x.d * y.d)
RSub(x, y) == Rat(x.n * y.d - y.n * x.d, x.d * y.d)
RMul(x, y) == Rat(x.n * y.n, x.d * y.d)
\* x / y for y # 0
RDiv(x, y) == Rat(x.n * y.d, x.d * y.n)
RAbs(x) == [n |-> Abs(x.n), d |-> x.d]

\* comparisons of floats that may be +infinity
RLt(x, y) ==
    IF IsInf(x) THEN FALSE
    ELSE IF IsInf(y) THEN TRUE
    ELSE x.n * y.d < y.n * x.d
RLe(x, y) ==
    IF IsInf(y) THEN TRUE
    ELSE IF IsInf(x) THEN FALSE
    ELSE x.n * y.d <= y.n * x.d
RGt(x, y) == RLt(y, x)
RGe(x, y) == RLe(y, x)

Zero == RInt(0)

\* The value of an expression whose evaluation raised ZeroDivisionError.
ZeroDivisionError == [n |-> 0, d |-> 0]

IsError(x) == x.n = 0 /\ x.d = 0

\* Python's x / y on floats: raises when y is 0.0
PyDiv(x, y) == IF y.n = 0 THEN ZeroDivisionError ELSE RDiv(x, y)

\* A call either returns a value or raises.
Return(v) == [raised |-> FALSE, value |-> v]
Raise == [raised |-> TRUE, value |-> "ZeroDivisionError"]

(***************************************************************************)
(* StaticAnalysis                                                          *)
(***************************************************************************)
concrete_density == 25
soil_density == 18

\* the literals 0.1, 1.3 and 1.5 of the stability checks
HorizontalShare == Rat(1, 10)
SlidingRequired == Rat(13, 10)
OverturningRequired == Rat(15, 10)

\* calculate_self_weight, the mutant: the soil term is added whatever the depth
calculate_self_weight_always_soil(self) ==
    LET foundation_volume == RMul(RMul(self.length, self.width), self.height)
        foundation_weight == RMul(foundation_volume, RInt(concrete_density))
        soil_volume == RMul(RMul(self.length, self.width),
                            RSub(self.buried_depth, self.height))
        soil_weight == RMul(soil_volume, RInt(soil_density))
    IN  RAdd(foundation_weight, soil_weight)

calculate_self_weight(self) ==
    LET foundation_volume == RMul(RMul(self.length, self.width), self.height)
        foundation_weight == RMul(foundation_volume, RInt(concrete_density))
        soil_weight ==
            IF RGt(self.buried_depth, self.height)
            THEN LET soil_volume == RMul(RMul(self.length, self.width),
                                         RSub(self.buried_depth, self.height))
                 IN  RMul(soil_volume, RInt(soil_density))
            ELSE Zero
    IN  RAdd(foundation_weight, soil_weight)

\* StaticAnalysis.__init__
StaticAnalysisInit(length, width, height, buried_depth, concrete_strength, elastic_modulus, soil_bearing_capacity, static_load, load_eccentricity, friction_coefficient) ==
    LET o == [length |-> length, width |-> width, height |-> height,
              buried_depth |-> buried_depth,
              concrete_strength |-> concrete_strength,
              elastic_modulus |-> elastic_modulus,
              soil_bearing_capacity |-> soil_bearing_capacity,
              static_load |-> static_load,
              load_eccentricity |-> load_eccentricity,
              friction_coefficient |-> friction_coefficient,
              self_weight |-> Zero]
    IN  [o EXCEPT !.self_weight = calculate_self_weight(o)]

\* sliding_stability, the mutant: the required factor must be exceeded
sliding_stability_strict(self) ==
    LET horizontal_load == RMul(self.static_load, HorizontalShare)
        anti_sliding_force ==
            RMul(RAdd(self.self_weight, self.static_load), self.friction_coefficient)
        safety_factor ==
            IF RGt(horizontal_load, Zero)
            THEN PyDiv(anti_sliding_force, horizontal_load) ELSE Inf
    IN  IF IsError(safety_factor) THEN Raise
        ELSE Return([safety_factor |-> safety_factor,
                     is_safe |-> RGt(safety_factor, SlidingRequired)])

\* sliding_stability, the mutant: the division is not guarded
sliding_stability_unguarded(self) ==
    LET horizontal_load == RMul(self.static_load, HorizontalShare)
        anti_sliding_force ==
            RMul(RAdd(self.self_weight, self.static_load), self.friction_coefficient)
        safety_factor == PyDiv(anti_sliding_force, horizontal_load)
    IN  IF IsError(safety_factor) THEN Raise
        ELSE Return([safety_factor |-> safety_factor,
                     is_safe |-> RGe(safety_factor, SlidingRequired)])

\* sliding_stability, the mutant: the weight is divided by the friction coefficient
sliding_stability_inverse_friction(self) ==
    LET horizontal_load == RMul(self.static_load, HorizontalShare)
        anti_sliding_force ==
            PyDiv(RAdd(self.self_weight, self.static_load), self.friction_coefficient)
        safety_factor ==
            IF RGt(horizontal_load, Zero)
            THEN PyDiv(anti_sliding_force, horizontal_load) ELSE Inf
    IN  IF IsError(safety_factor) THEN Raise
        ELSE Return([safety_factor |-> safety_factor,
                     is_safe |-> RGe(safety_factor, SlidingRequired)])

sliding_stability(self) ==
    LET horizontal_load == RMul(self.static_load, HorizontalShare)
        anti_sliding_force ==
            RMul(RAdd(self.self_weight, self.static_load), self.friction_coefficient)
        safety_factor ==
            IF RGt(horizontal_load, Zero)
            THEN PyDiv(anti_sliding_force, horizontal_load) ELSE Inf
    IN  IF IsError(safety_factor) THEN Raise
        ELSE Return([safety_factor |-> safety_factor,
                     is_safe |-> RGe(safety_factor, SlidingRequired)])

\* overturning_stability, the mutant: the static-load term is added for every ex
overturning_stability_unbounded(self) ==
    LET horizontal_load == RMul(self.static_load, HorizontalShare)
        overturning_moment ==
            RMul(horizontal_load,
                 RSub(RAdd(self.height, self.buried_depth), self.height))
        half == RDiv(self.length, RInt(2))
        ex == self.load_eccentricity[1]
        stabilizing_moment ==
            RAdd(RMul(self.self_weight, half),
                 RMul(self.static_load, RSub(half, RAbs(ex))))
        safety_factor ==
            IF RGt(overturning_moment, Zero)
            THEN PyDiv(stabilizing_moment, overturning_moment) ELSE Inf
    IN  IF IsError(safety_factor) THEN Raise
        ELSE Return([safety_factor |-> safety_factor,
                     is_safe |-> RGe(safety_factor, OverturningRequired)])

overturning_stability(self) ==
    LET horizontal_load == RMul(self.static_load, HorizontalShare)
        overturning_moment ==
            RMul(horizontal_load,
                 RSub(RAdd(self.height, self.buried_depth), self.height))
        half == RDiv(self.length, RInt(2))
        ex == self.load_eccentricity[1]
        stabilizing_moment ==
            IF RLt(RAbs(ex), half)
            THEN RAdd(RMul(self.self_weight, half),
                      RMul(self.static_load, RSub(half, RAbs(ex))))
            ELSE RMul(self.self_weight, half)
        safety_factor ==
            IF RGt(overturning_moment, Zero)
            THEN PyDiv(stabilizing_moment, overturning_moment) ELSE Inf
    IN  IF IsError(safety_factor) THEN Raise
        ELSE Return([safety_factor |-> safety_factor,
                     is_safe |-> RGe(safety_factor, OverturningRequired)])

\* bearing_capacity, the mutant: a zero effective area is divided by
bearing_capacity_zero_area(self) ==
    LET total_load == RAdd(self.self_weight, self.static_load)
        ex == self.load_eccentricity[1]
        ey == self.load_eccentricity[2]
        effective_length == RSub(self.length, RMul(RInt(2), RAbs(ex)))
        effective_width == RSub(self.width, RMul(RInt(2), RAbs(ey)))
        effective_area == RMul(effective_length, effective_width)
        actual_pressure ==
            IF RGe(effective_area, Zero)
            THEN PyDiv(total_load, effective_area) ELSE Inf
    IN  IF IsError(actual_pressure) THEN Raise
        ELSE Return([actual_pressure |-> actual_pressure,
                     allowable_pressure |-> self.soil_bearing_capacity,
                     is_safe |-> RLe(actual_pressure, self.soil_bearing_capacity)])

bearing_capacity(self) ==
    LET total_load == RAdd(self.self_weight, self.static_load)
        ex == self.load_eccentricity[1]
        ey == self.load_eccentricity[2]
        effective_length == RSub(self.length, RMul(RInt(2), RAbs(ex)))
        effective_width == RSub(self.width, RMul(RInt(2), RAbs(ey)))
        effective_area == RMul(effective_length, effective_width)
        actual_pressure ==
            IF RGt(effective_area, Zero)
            THEN PyDiv(total_load, effective_area) ELSE Inf
    IN  IF IsError(actual_pressure) THEN Raise
        ELSE Return([actual_pressure |-> actual_pressure,
                     allowable_pressure |-> self.soil_bearing_capacity,
                     is_safe |-> RLe(actual_pressure, self.soil_bearing_capacity)])

\* StaticAnalysis.run_analysis, the mutant: the bearing check is left out of the verdict
static_run_analysis_no_bearing(self) ==
    LET sliding == sliding_stability(self)
        overturning == overturning_stability(self)
        bearing == bearing_capacity(self)
    IN  IF sliding.raised \/ overturning.raised \/ bearing.raised THEN Raise
        ELSE Return(
            [self_weight |-> self.self_weight,
             total_weight |-> RAdd(self.self_weight, self.static_load),
             sliding_stability |->
                 [safety_factor |-> sliding.value.safety_factor,
                  is_safe |-> sliding.value.is_safe,
                  required_factor |-> SlidingRequired],
             overturning_stability |->
                 [safety_factor |-> overturning.value.safety_factor,
                  is_safe |-> overturning.value.is_safe,
                  required_factor |-> OverturningRequired],
             bearing_capacity |->
                 [actual_pressure |-> bearing.value.actual_pressure,
                  allowable_pressure |-> bearing.value.allowable_pressure,
                  is_safe |-> bearing.value.is_safe],
             overall_safety |->
                 sliding.value.is_safe /\ overturning.value.is_safe])

\* StaticAnalysis.run_analysis
static_run_analysis(self) ==
    LET sliding == sliding_stability(self)
        overturning == overturning_stability(self)
        bearing == bearing_capacity(self)
    IN  IF sliding.raised \/ overturning.raised \/ bearing.raised THEN Raise
        ELSE Return(
            [self_weight |-> self.self_weight,
             total_weight |-> RAdd(self.self_weight, self.static_load),
             sliding_stability |->
                 [safety_factor |-> sliding.value.safety_factor,
                  is_safe |-> sliding.value.is_safe,
                  required_factor |-> SlidingRequired],
             overturning_stability |->
                 [safety_factor |-> overturning.value.safety_factor,
                  is_safe |-> overturning.value.is_safe,
                  required_factor |-> OverturningRequired],
             bearing_capacity |->
                 [actual_pressure |-> bearing.value.actual_pressure,
                  allowable_pressure |-> bearing.value.allowable_pressure,
                  is_safe |-> bearing.value.is_safe],
             overall_safety |->
                 sliding.value.is_safe /\ overturning.value.is_safe
                     /\ bearing.value.is_safe])

(***************************************************************************)
(* The inputs of the static calculator.  Lengths are whole metres, depths  *)
(* and eccentricities are halves of a metre, loads are steps of 250 kN.    *)
(***************************************************************************)
MaxLength == 3
MaxDepthHalves == 3
MaxEccHalves == 2
MaxLoadSteps == 2

Lengths == {RInt(l) : l \in 1..MaxLength}
Widths == {RInt(1), RInt(2)}
Heights == {RInt(1)}
BuriedDepths == {Rat(k, 2) : k \in 0..MaxDepthHalves}
Eccentricities == {Rat(k, 2) : k \in -MaxEccHalves..MaxEccHalves}
StaticLoads == {RInt(250 * j) : j \in 0..MaxLoadSteps}
Frictions == {Rat(1, 10), Rat(3, 10), Rat(45, 100)}
BearingCapacities == {RInt(100), RInt(200)}

\* get_default_parameters: the material data, which no formula reads
DefaultConcreteStrength == RInt(30)
DefaultElasticModulus == RInt(30000)

\* the static calculator of the default parameter record
DefaultStatic ==
    StaticAnalysisInit(RInt(3), RInt(2), RInt(1), Rat(1, 2), DefaultConcreteStrength,
                       DefaultElasticModulus, RInt(200), RInt(500),
                       <<Zero, Zero>>, Rat(45, 100))

NoCall == [op |-> "none", raised |-> FALSE, value |-> "none"]

Called(op, result) == [op |-> op, raised |-> result.raised, value |-> result.value]

(***************************************************************************)
(* The calls on the static calculator.                                     *)
(***************************************************************************)
SlidingStability ==
    /\ static_ret' = Called("sliding_stability", sliding_stability(sa))
    /\ UNCHANGED <<sa, dynamicVars>>

OverturningStability ==
    /\ static_ret' = Called("overturning_stability", overturning_stability(sa))
    /\ UNCHANGED <<sa, dynamicVars>>

BearingCapacity ==
    /\ static_ret' = Called("bearing_capacity", bearing_capacity(sa))
    /\ UNCHANGED <<sa, dynamicVars>>

StaticRunAnalysis ==
    /\ static_ret' = Called("run_analysis", static_run_analysis(sa))
    /\ UNCHANGED <<sa, dynamicVars>>

(***************************************************************************)
(* Decimal floating point for the dynamic calculator: m * 10^e with a      *)
(* mantissa of four digits (1000 <= |m| <= 9999, or m = 0 and e = 0),      *)
(* truncated after every operation, with float('inf') and nan.             *)
(***************************************************************************)
RECURSIVE Pow10(_)
Pow10(k) == IF k <= 0 THEN 1 ELSE 10 * Pow10(k - 1)

\* integer division that truncates towards zero
TDiv(a, b) ==
    LET q == Abs(a) \div Abs(b)
    IN  IF (a < 0) = (b < 0) THEN q ELSE -q

RECURSIVE FNorm(_, _)
FNorm(m, e) ==
    IF m = 0 THEN [m |-> 0, e |-> 0, special |-> "no"]
    ELSE IF Abs(m) >= 10000 THEN FNorm(TDiv(m, 10), e + 1)
    ELSE IF Abs(m) < 1000 THEN FNorm(m * 10, e - 1)
    ELSE [m |-> m, e |-> e, special |-> "no"]

FInf == [m |-> 1, e |-> 0, special |-> "inf"]
FNaN == [m |-> 0, e |-> 0, special |-> "nan"]
IsFInf(x) == x.special = "inf"
IsFNaN(x) == x.special = "nan"
IsFinite(x) == x.special = "no"

FromInt(n) == FNorm(n, 0)
FZero == FromInt(0)
FOne == FromInt(1)

\* the operations below are used on finite values
FNeg(x) == [x EXCEPT !.m = -x.m]
FMul(x, y) == FNorm(x.m * y.m, x.e + y.e)
\* x / y for y # 0
FDiv(x, y) == FNorm(TDiv(x.m * 100000, y.m), x.e - y.e - 5)
FAdd(x, y) ==
    IF x.m = 0 THEN y
    ELSE IF y.m = 0 THEN x
    ELSE LET hi == IF x.e >= y.e THEN x ELSE y
             lo == IF x.e >= y.e THEN y ELSE x
             shift == hi.e - lo.e
         IN  IF shift > 5 THEN hi
             ELSE FNorm(hi.m * Pow10(shift) + lo.m, lo.e)
FSub(x, y) == FAdd(x, FNeg(y))
FLt(x, y) == FSub(x, y).m < 0
FLe(x, y) == FSub(x, y).m <= 0
FIsZero(x) == IsFinite(x) /\ x.m = 0

\* the largest r in lo..hi with r * r <= n, given lo * lo <= n
RECURSIVE ISqrtIn(_, _, _)
ISqrtIn(n, lo, hi) ==
    IF lo >= hi THEN lo
    ELSE LET mid == (lo + hi + 1) \div 2
         IN  IF mid * mid <= n THEN ISqrtIn(n, mid, hi) ELSE ISqrtIn(n, lo, mid - 1)

ISqrt(n) == ISqrtIn(n, 0, 40000)

\* np.sqrt of x >= 0
FSqrt(x) ==
    IF x.m = 0 THEN FZero
    ELSE LET odd == x.e % 2 = 1
             m2 == IF odd THEN x.m * 10 ELSE x.m
             e2 == IF odd THEN x.e - 1 ELSE x.e
         IN  FNorm(ISqrt(m2 * 10000), (e2 - 4) \div 2)

\* np.pi
Pi == [m |-> 3142, e |-> -3, special |-> "no"]

(***************************************************************************)
(* Frequencies are kept exactly, as integers on a grid whose unit is       *)
(* 1/(NumSamples - 1) of a millihertz, so that the samples np.linspace     *)
(* puts between two whole millihertz are points of the grid.               *)
(***************************************************************************)
NumSamples == 1000

MilliHz == NumSamples - 1
Hz == 1000 * MilliHz

\* a frequency of the grid as a float in Hz
FromGrid(u) == FDiv(FromInt(u), FromInt(Hz))

\* a non-negative float in Hz as a frequency of the grid, in whole millihertz
ToGrid(x) ==
    IF x.e + 3 >= 0 THEN x.m * Pow10(x.e + 3) * MilliHz
    ELSE (x.m \div Pow10(-(x.e + 3))) * MilliHz

\* np.linspace(start, stop, num)
Linspace(start, stop, num) ==
    LET step == (stop - start) \div (num - 1)
    IN  [i \in 1..num |-> IF i = num THEN stop ELSE start + (i - 1) * step]

(***************************************************************************)
(* DynamicAnalysis                                                         *)
(***************************************************************************)
\* x * y where x or y may be inf or nan
FMulS(x, y) ==
    IF IsFNaN(x) \/ IsFNaN(y) THEN FNaN
    ELSE IF IsFInf(x) \/ IsFInf(y)
         THEN IF FIsZero(x) \/ FIsZero(y) THEN FNaN ELSE FInf
    ELSE FMul(x, y)

FSquare(x) == FMul(x, x)

\* calculate_spring_constant, the mutant: the width is left out of the base area
calculate_spring_constant_per_metre(self) ==
    LET base_area == self.length
        k == FMul(self.soil_coefficient, base_area)
    IN  k

calculate_spring_constant(self) ==
    LET base_area == FMul(self.length, self.width)
        k == FMul(self.soil_coefficient, base_area)
    IN  k

\* calculate_natural_frequency, the mutant: the stiffness is converted to N/m
calculate_natural_frequency_newtons(self) ==
    LET omega_squared == FDiv(FMul(self.spring_constant, FromInt(1000)), self.total_mass)
        natural_freq == FDiv(FSqrt(omega_squared), FMul(FromInt(2), Pi))
    IN  natural_freq

\* total_mass is positive
calculate_natural_frequency(self) ==
    LET omega_squared == FDiv(self.spring_constant, self.total_mass)
        natural_freq == FDiv(FSqrt(omega_squared), FMul(FromInt(2), Pi))
    IN  natural_freq

\* DynamicAnalysis.__init__; frequency is a frequency of the grid
DynamicAnalysisInit(length, width, height, buried_depth, concrete_strength, elastic_modulus, soil_coefficient, dynamic_load, frequency, total_mass, damping_ratio) ==
    LET o == [length |-> length, width |-> width, height |-> height,
              buried_depth |-> buried_depth,
              concrete_strength |-> concrete_strength,
              elastic_modulus |-> FMul(elastic_modulus, FromInt(1000)),
              soil_coefficient |-> soil_coefficient,
              dynamic_load |-> dynamic_load,
              frequency |-> frequency,
              total_mass |-> total_mass,
              damping_ratio |-> damping_ratio,
              spring_constant |-> FZero,
              natural_frequency |-> FZero]
        p == [o EXCEPT !.spring_constant = calculate_spring_constant(o)]
    IN  [p EXCEPT !.natural_frequency = calculate_natural_frequency(p)]

\* calculate_frequency_ratio, the mutant: 0 for a zero natural frequency
calculate_frequency_ratio_zero(self) ==
    IF FLt(FZero, self.natural_frequency)
    THEN FDiv(FromGrid(self.frequency), self.natural_frequency)
    ELSE FZero

calculate_frequency_ratio(self) ==
    IF FLt(FZero, self.natural_frequency)
    THEN FDiv(FromGrid(self.frequency), self.natural_frequency)
    ELSE FInf

\* 1 / np.sqrt((1 - r**2)**2 + (2 * zeta * r)**2)
ForceTransfer(r, zeta) ==
    IF IsFInf(r) THEN (IF FIsZero(zeta) THEN FNaN ELSE FZero)
    ELSE LET root == FSqrt(FAdd(FSquare(FSub(FOne, FSquare(r))),
                                FSquare(FMul(FMul(FromInt(2), zeta), r))))
         IN  IF FIsZero(root) THEN FInf ELSE FDiv(FOne, root)

\* calculate_amplitude, the mutant: the amplitude is left in metres
calculate_amplitude_metres(self) ==
    LET r == calculate_frequency_ratio(self)
        zeta == self.damping_ratio
        force_tf == IF FIsZero(r) THEN FOne ELSE ForceTransfer(r, zeta)
    IN  IF FIsZero(self.spring_constant) THEN Raise
        ELSE LET static_deflection == FDiv(self.dynamic_load, self.spring_constant)
                 amplitude == FMulS(static_deflection, force_tf)
             IN  Return(amplitude)

\* calculate_amplitude: the division by a zero spring constant raises
calculate_amplitude(self) ==
    LET r == calculate_frequency_ratio(self)
        zeta == self.damping_ratio
        force_tf == IF FIsZero(r) THEN FOne ELSE ForceTransfer(r, zeta)
    IN  IF FIsZero(self.spring_constant) THEN Raise
        ELSE LET static_deflection == FDiv(self.dynamic_load, self.spring_constant)
                 amplitude == FMulS(static_deflection, force_tf)
                 amplitude_mm == FMulS(amplitude, FromInt(1000))
             IN  Return(amplitude_mm)

\* x <= y where x or y may be float('inf') or nan
FLeS(x, y) ==
    IF IsFNaN(x) \/ IsFNaN(y) THEN FALSE
    ELSE IF IsFInf(y) THEN TRUE
    ELSE IF IsFInf(x) THEN FALSE
    ELSE FLe(x, y)

\* calculate_transmissibility; a quotient of two np.float64 does not raise:
\* inf / inf is nan, and a zero denominator gives inf
calculate_transmissibility(self) ==
    LET r == calculate_frequency_ratio(self)
        zeta == self.damping_ratio
    IN  IF FIsZero(r) THEN FOne
        ELSE IF IsFInf(r) THEN FNaN
        ELSE LET damping == FSquare(FMul(FMul(FromInt(2), zeta), r))
                 numerator == FSqrt(FAdd(FOne, damping))
                 denominator == FSqrt(FAdd(FSquare(FSub(FOne, FSquare(r))), damping))
                 tr == IF FIsZero(denominator) THEN FInf
                       ELSE FDiv(numerator, denominator)
             IN  tr

\* the literals 0.8 and 1.2 of is_resonance_risk
ResonanceLow == FDiv(FromInt(8), FromInt(10))
ResonanceHigh == FDiv(FromInt(12), FromInt(10))

\* is_resonance_risk: <<is_risk, r>>
is_resonance_risk(self) ==
    LET r == calculate_frequency_ratio(self)
        is_risk == FLeS(ResonanceLow, r) /\ FLeS(r, ResonanceHigh)
    IN  <<is_risk, r>>

\* the literal 0.15 of run_analysis
AllowableAmplitude == FDiv(FromInt(15), FromInt(100))

\* run_analysis, the mutant: an amplitude equal to the allowable one fails
dynamic_run_analysis_strict(self) ==
    LET freq_ratio == calculate_frequency_ratio(self)
        transmissibility == calculate_transmissibility(self)
        amplitude == calculate_amplitude(self)
        resonance_risk == is_resonance_risk(self)[1]
        allowable_amplitude == AllowableAmplitude
    IN  IF amplitude.raised THEN Raise
        ELSE LET is_safe == FLeS(amplitude.value, allowable_amplitude)
                            /\ amplitude.value # allowable_amplitude
             IN  Return([natural_frequency |-> self.natural_frequency,
                         frequency_ratio |-> freq_ratio,
                         transmissibility |-> transmissibility,
                         amplitude |-> amplitude.value,
                         allowable_amplitude |-> allowable_amplitude,
                         is_safe |-> is_safe,
                         resonance_risk |-> resonance_risk])

\* DynamicAnalysis.run_analysis; the exception of calculate_amplitude leaves it
dynamic_run_analysis(self) ==
    LET freq_ratio == calculate_frequency_ratio(self)
        transmissibility == calculate_transmissibility(self)
        amplitude == calculate_amplitude(self)
        resonance_risk == is_resonance_risk(self)[1]
        allowable_amplitude == AllowableAmplitude
    IN  IF amplitude.raised THEN Raise
        ELSE LET is_safe == FLeS(amplitude.value, allowable_amplitude)
             IN  Return([natural_frequency |-> self.natural_frequency,
                         frequency_ratio |-> freq_ratio,
                         transmissibility |-> transmissibility,
                         amplitude |-> amplitude.value,
                         allowable_amplitude |-> allowable_amplitude,
                         is_safe |-> is_safe,
                         resonance_risk |-> resonance_risk])

\* freq_range = None
None == <<>>

\* the literals 0.1, 3 and 50 of the default domain
DefaultStartFreq == 100 * MilliHz
DefaultEndFactor == FromInt(3)
FallbackSpan == 50 * Hz

\* calculate_response_curve, lines 160-166, the mutant: no fallback for a short domain
ResponseDomain_no_fallback(self, freq_range) ==
    IF freq_range = None
    THEN LET start_freq == DefaultStartFreq
             end_freq == ToGrid(FMul(self.natural_frequency, DefaultEndFactor))
         IN  <<start_freq, end_freq>>
    ELSE freq_range

\* calculate_response_curve, lines 160-166: <<start_freq, end_freq>>
ResponseDomain(self, freq_range) ==
    IF freq_range = None
    THEN LET start_freq == DefaultStartFreq
             end_freq == ToGrid(FMul(self.natural_frequency, DefaultEndFactor))
         IN  IF end_freq <= start_freq
             THEN <<start_freq, start_freq + FallbackSpan>>
             ELSE <<start_freq, end_freq>>
    ELSE freq_range

(***************************************************************************)
(* The inputs of the dynamic calculator.                                   *)
(***************************************************************************)
MaxRangeHz == 2

SoilCoefficients == {FromInt(0), FromInt(1), FromInt(80000)}
Frequencies == {10 * Hz}
FreqRanges == {None} \cup {<<a * Hz, b * Hz>> : a, b \in 1..MaxRangeHz}

DefaultDampingRatio == FDiv(FromInt(5), FromInt(100))

\* the dynamic calculator of the default parameter record, with a mass of 40000 kg
DefaultDynamic ==
    DynamicAnalysisInit(FromInt(3), FromInt(2), FromInt(1), FDiv(FromInt(1), FromInt(2)),
                        FromInt(30), FromInt(30000), FromInt(80000), FromInt(50),
                        10 * Hz, FromInt(40000), DefaultDampingRatio)

\* no call of calculate_response_curve is running; entry and freq_range are
\* the object as it was when the last call was made, and that call's argument
IdleFrame(entry, freq_range) ==
    [pc |-> "idle", frequencies |-> <<>>, amplitudes |-> <<>>, i |-> 0,
     original_freq |-> 0, entry |-> entry, freq_range |-> freq_range]

(***************************************************************************)
(* The calls on the dynamic calculator.  calculate_response_curve is a     *)
(* loop, one step per statement of its body.                               *)
(***************************************************************************)
CalculateAmplitude ==
    /\ sweep.pc = "idle"
    /\ dynamic_ret' = Called("calculate_amplitude", calculate_amplitude(da))
    /\ UNCHANGED <<da, sweep, staticVars>>

\* lines 160-173: the domain, the samples, the saved frequency
CallResponseCurve(freq_range) ==
    /\ sweep.pc = "idle"
    /\ LET domain == ResponseDomain(da, freq_range)
       IN  sweep' = [pc |-> "assign",
                     frequencies |-> Linspace(domain[1], domain[2], NumSamples),
                     amplitudes |-> <<>>,
                     i |-> 1,
                     original_freq |-> da.frequency,
                     entry |-> da,
                     freq_range |-> freq_range]
    /\ dynamic_ret' = NoCall
    /\ UNCHANGED <<da, staticVars>>

\* line 177: self.frequency = freq
SweepAssign ==
    /\ sweep.pc = "assign"
    /\ sweep.i <= Len(sweep.frequencies)
    /\ da' = [da EXCEPT !.frequency = sweep.frequencies[sweep.i]]
    /\ sweep' = [sweep EXCEPT !.pc = "append"]
    /\ UNCHANGED <<dynamic_ret, staticVars>>

\* line 178: amplitudes.append(self.calculate_amplitude())
SweepAppend ==
    /\ sweep.pc = "append"
    /\ LET a == calculate_amplitude(da)
       IN  /\ ~a.raised
           /\ sweep' = [sweep EXCEPT !.amplitudes = Append(@, a.value),
                                     !.i = @ + 1,
                                     !.pc = "assign"]
    /\ UNCHANGED <<da, dynamic_ret, staticVars>>

\* line 178, calculate_amplitude raises: the exception leaves the call
SweepRaise ==
    /\ sweep.pc = "append"
    /\ calculate_amplitude(da).raised
    /\ sweep' = IdleFrame(sweep.entry, sweep.freq_range)
    /\ dynamic_ret' = Called("calculate_response_curve", Raise)
    /\ UNCHANGED <<da, staticVars>>

\* lines 181-183, the mutant: the frequency is not restored
SweepReturn_no_restore ==
    /\ sweep.pc = "assign"
    /\ sweep.i > Len(sweep.frequencies)
    /\ dynamic_ret' = Called("calculate_response_curve",
                             Return([frequencies |-> sweep.frequencies,
                                     amplitudes |-> sweep.amplitudes]))
    /\ sweep' = IdleFrame(sweep.entry, sweep.freq_range)
    /\ UNCHANGED <<da, staticVars>>

\* lines 181-183: the frequency is restored and the two arrays are returned
SweepReturn ==
    /\ sweep.pc = "assign"
    /\ sweep.i > Len(sweep.frequencies)
    /\ da' = [da EXCEPT !.frequency = sweep.original_freq]
    /\ dynamic_ret' = Called("calculate_response_curve",
                             Return([frequencies |-> sweep.frequencies,
                                     amplitudes |-> sweep.amplitudes]))
    /\ sweep' = IdleFrame(sweep.entry, sweep.freq_range)
    /\ UNCHANGED staticVars

\* calculate_frequency_ratio, called on its own
CalculateFrequencyRatio ==
    /\ sweep.pc = "idle"
    /\ dynamic_ret' = Called("calculate_frequency_ratio",
                             Return(calculate_frequency_ratio(da)))
    /\ UNCHANGED <<da, sweep, staticVars>>

\* calculate_transmissibility, called on its own
CalculateTransmissibility ==
    /\ sweep.pc = "idle"
    /\ dynamic_ret' = Called("calculate_transmissibility",
                             Return(calculate_transmissibility(da)))
    /\ UNCHANGED <<da, sweep, staticVars>>

\* is_resonance_risk, called on its own
IsResonanceRisk ==
    /\ sweep.pc = "idle"
    /\ dynamic_ret' = Called("is_resonance_risk", Return(is_resonance_risk(da)))
    /\ UNCHANGED <<da, sweep, staticVars>>

\* DynamicAnalysis.run_analysis
DynamicRunAnalysis ==
    /\ sweep.pc = "idle"
    /\ dynamic_ret' = Called("run_analysis", dynamic_run_analysis(da))
    /\ UNCHANGED <<da, sweep, staticVars>>

(***************************************************************************)
(* calculate_response_curve as one step, from the call to its return or    *)
(* to the exception that leaves it: what the loop above does between       *)
(* CallResponseCurve and SweepReturn or SweepRaise.  The result is the     *)
(* object after the call and what the call returned.                      *)
(***************************************************************************)
\* the outcome of calculate_amplitude at each sample of the domain, as a list
SampleOutcomes(self, frequencies) ==
    <<>> \o [i \in 1..Len(frequencies) |->
        calculate_amplitude([self EXCEPT !.frequency = frequencies[i]])]

\* the mutant: the frequency is left at the last sample
calculate_response_curve_no_restore(self, freq_range) ==
    LET domain == ResponseDomain(self, freq_range)
        frequencies == <<>> \o Linspace(domain[1], domain[2], NumSamples)
        outcomes == SampleOutcomes(self, frequencies)
        raising == {i \in 1..NumSamples : outcomes[i].raised}
    IN  IF raising # {}
        THEN LET i == CHOOSE j \in raising : \A h \in raising : j <= h
             IN  [self |-> [self EXCEPT !.frequency = frequencies[i]],
                  ret |-> Raise]
        ELSE [self |-> [self EXCEPT !.frequency = frequencies[NumSamples]],
              ret |-> Return([frequencies |-> frequencies,
                              amplitudes |-> <<>> \o [i \in 1..NumSamples |-> outcomes[i].value]])]

\* the mutant: every amplitude is computed at the frequency the object had
calculate_response_curve_stale(self, freq_range) ==
    LET domain == ResponseDomain(self, freq_range)
        frequencies == <<>> \o Linspace(domain[1], domain[2], NumSamples)
        original_freq == self.frequency
        outcome == calculate_amplitude(self)
    IN  IF outcome.raised
        THEN [self |-> self, ret |-> Raise]
        ELSE [self |-> [self EXCEPT !.frequency = frequencies[NumSamples]],
              ret |-> Return([frequencies |-> frequencies,
                              amplitudes |-> <<>> \o [i \in 1..NumSamples |-> outcome.value]])]

\* lines 160-183
calculate_response_curve(self, freq_range) ==
    LET domain == ResponseDomain(self, freq_range)
        frequencies == <<>> \o Linspace(domain[1], domain[2], NumSamples)
        original_freq == self.frequency
        outcomes == SampleOutcomes(self, frequencies)
        raising == {i \in 1..NumSamples : outcomes[i].raised}
    IN  IF raising # {}
        THEN LET i == CHOOSE j \in raising : \A h \in raising : j <= h
             IN  [self |-> [self EXCEPT !.frequency = frequencies[i]],
                  ret |-> Raise]
        ELSE [self |-> [self EXCEPT !.frequency = original_freq],
              ret |-> Return([frequencies |-> frequencies,
                              amplitudes |-> <<>> \o [i \in 1..NumSamples |-> outcomes[i].value]])]

\* a whole call of calculate_response_curve
ResponseCurve(freq_range) ==
    /\ sweep.pc = "idle"
    /\ LET call == calculate_response_curve(da, freq_range)
       IN  /\ da' = call.self
           /\ dynamic_ret' = Called("calculate_response_curve", call.ret)
    /\ sweep' = IdleFrame(da, freq_range)
    /\ UNCHANGED staticVars

(***************************************************************************)
(* History of the calls, kept beside the program: for each domain the      *)
(* first curve returned for it, and the first outcome of run_analysis on   *)
(* each calculator, with whether a later call has come back since.         *)
(***************************************************************************)
RepeatRanges == {None}

NoCurve ==
    [returned |-> FALSE, repeated |-> FALSE, frequencies |-> <<>>, amplitudes |-> <<>>]

NoCurves == [freq_range \in RepeatRanges |-> NoCurve]

NoRun == [returned |-> FALSE, repeated |-> FALSE, first |-> NoCall]

NoRuns == [static |-> NoRun, dynamic |-> NoRun]

\* the history after a call for the domain freq_range left dynamic_ret'
RecordCurve(freq_range) ==
    curves' = IF dynamic_ret'.raised THEN curves
              ELSE [curves EXCEPT ![freq_range] =
                      IF @.returned THEN [@ EXCEPT !.repeated = TRUE]
                      ELSE [returned |-> TRUE, repeated |-> FALSE,
                            frequencies |-> dynamic_ret'.value.frequencies,
                            amplitudes |-> dynamic_ret'.value.amplitudes]]

\* the history after a call of run_analysis came back with outcome ret
RecordRun(calculator, ret) ==
    runs' = [runs EXCEPT ![calculator] =
                IF @.returned THEN [@ EXCEPT !.repeated = TRUE]
                ELSE [returned |-> TRUE, repeated |-> FALSE, first |-> ret]]

(***************************************************************************)
(* utils.validate_parameters.  A Python value is a number, a string (the   *)
(* list of its characters) or None; a dict is the list of its items, in    *)
(* the order of insertion, with distinct keys.                             *)
(***************************************************************************)
PyNumber(n) == [type |-> "float", number |-> n, chars |-> <<>>]
PyString(chars) == [type |-> "str", number |-> 0, chars |-> chars]
PyNone == [type |-> "NoneType", number |-> 0, chars |-> <<>>]

Digits == <<"0", "1", "2", "3", "4", "5", "6", "7", "8", "9">>
IsDigit(c) == \E d \in 1..10 : Digits[d] = c
DigitValue(c) == (CHOOSE d \in 1..10 : Digits[d] = c) - 1

\* the number written by a list of digits
RECURSIVE Decimal(_)
Decimal(chars) ==
    IF chars = <<>> THEN 0
    ELSE 10 * Decimal(SubSeq(chars, 1, Len(chars) - 1)) + DigitValue(chars[Len(chars)])

ValueError == [raised |-> TRUE, value |-> "ValueError"]
TypeError == [raised |-> TRUE, value |-> "TypeError"]

\* float(value), for strings of digits, signs and letters: a string is a
\* number when it is an optional sign and then one digit or more
PyFloat(value) ==
    IF value.type = "float" THEN Return(value.number)
    ELSE IF value.type = "str"
    THEN LET signed == value.chars # <<>> /\ value.chars[1] \in {"-", "+"}
             digits == IF signed THEN Tail(value.chars) ELSE value.chars
         IN  IF digits # <<>> /\ \A i \in 1..Len(digits) : IsDigit(digits[i])
             THEN Return(IF signed /\ value.chars[1] = "-"
                         THEN -Decimal(digits) ELSE Decimal(digits))
             ELSE ValueError
    ELSE TypeError

\* key in params
HasKey(items, key) == \E i \in 1..Len(items) : items[i].key = key

TextFields == {"name", "description", "date", "unit"}
SignedFields == {"load_eccentricity_x", "load_eccentricity_y"}

\* the messages: the text before the name of the field, and that name
Message(text, field) == [text |-> text, field |-> field]
NoMessage == Message("", "")

\* lines 70-72: the first required field that params does not have
RECURSIVE CheckRequired(_, _)
CheckRequired(items, fields) ==
    IF fields = <<>> THEN Return(<<TRUE, NoMessage>>)
    ELSE IF ~HasKey(items, Head(fields))
    THEN Return(<<FALSE, Message("missing required parameter", Head(fields))>>)
    ELSE CheckRequired(items, Tail(fields))

\* lines 75-85: the items in order; except ValueError catches no TypeError
RECURSIVE CheckNumeric(_)
CheckNumeric(items) ==
    IF items = <<>> THEN Return(<<TRUE, NoMessage>>)
    ELSE LET key == Head(items).key
             val == PyFloat(Head(items).value)
         IN  IF key \in TextFields THEN CheckNumeric(Tail(items))
             ELSE IF val.raised /\ val = ValueError
             THEN Return(<<FALSE, Message("not a valid number", key)>>)
             ELSE IF val.raised THEN val
             ELSE IF val.value < 0 /\ key \notin SignedFields
             THEN Return(<<FALSE, Message("must not be negative", key)>>)
             ELSE CheckNumeric(Tail(items))

validate_parameters(items, fields) ==
    LET required == CheckRequired(items, fields)
    IN  IF ~required.value[1] THEN required ELSE CheckNumeric(items)

\* the inputs: dicts of at most MaxItems items
MaxItems == 2

ParamKeys == {"name", "length", "load_eccentricity_x"}
ParamValues ==
    {PyNumber(2), PyNumber(-1), PyString(<<"1", "2">>), PyString(<<"-", "1">>),
     PyString(<<"a">>), PyString(<<>>), PyNone}
RequiredLists == {<<>>, <<"length">>, <<"length", "width">>}

Dicts ==
    UNION {{items \in [1..n -> [key : ParamKeys, value : ParamValues]] :
              \A i, j \in 1..n : i # j => items[i].key # items[j].key} :
           n \in 0..MaxItems}

\* a call of validate_parameters on the dict and the list of required fields
ValidateParameters ==
    /\ validate_ret' = Called("validate_parameters",
                              validate_parameters(params, required_fields))
    /\ UNCHANGED <<params, required_fields, staticVars, dynamicVars, historyVars, restVars>>

\* the caller has another dict to validate
NewParameters ==
    /\ validate_ret.op = "validate_parameters"
    /\ params' \in Dicts
    /\ validate_ret' = NoCall
    /\ UNCHANGED <<required_fields, staticVars, dynamicVars, historyVars, restVars>>

(***************************************************************************)
(* utils.convert_units.  A unit is its name; "kgf/cm^2" stands for the     *)
(* name written with a superscript two, the only spelling that is a key    *)
(* of pressure_units.                                                      *)
(***************************************************************************)
length_units == [m |-> RInt(1), cm |-> Rat(1, 100), mm |-> Rat(1, 1000)]

force_units == [kN |-> RInt(1), N |-> Rat(1, 1000), tf |-> Rat(98, 10), kgf |-> Rat(981, 100000)]

pressure_units ==
    ("kPa" :> RInt(1)) @@ ("MPa" :> RInt(1000)) @@ ("Pa" :> Rat(1, 1000)) @@
    ("kgf/cm^2" :> Rat(980665, 10000))

\* convert_units, the mutant: an unsupported pair gives the value back
convert_units_lenient(value, from_unit, to_unit) ==
    IF from_unit \in DOMAIN length_units /\ to_unit \in DOMAIN length_units
    THEN Return(RDiv(RMul(value, length_units[from_unit]), length_units[to_unit]))
    ELSE IF from_unit \in DOMAIN force_units /\ to_unit \in DOMAIN force_units
    THEN Return(RDiv(RMul(value, force_units[from_unit]), force_units[to_unit]))
    ELSE IF from_unit \in DOMAIN pressure_units /\ to_unit \in DOMAIN pressure_units
    THEN Return(RDiv(RMul(value, pressure_units[from_unit]), pressure_units[to_unit]))
    ELSE Return(value)

convert_units(value, from_unit, to_unit) ==
    IF from_unit \in DOMAIN length_units /\ to_unit \in DOMAIN length_units
    THEN Return(RDiv(RMul(value, length_units[from_unit]), length_units[to_unit]))
    ELSE IF from_unit \in DOMAIN force_units /\ to_unit \in DOMAIN force_units
    THEN Return(RDiv(RMul(value, force_units[from_unit]), force_units[to_unit]))
    ELSE IF from_unit \in DOMAIN pressure_units /\ to_unit \in DOMAIN pressure_units
    THEN Return(RDiv(RMul(value, pressure_units[from_unit]), pressure_units[to_unit]))
    ELSE ValueError

\* the inputs: every unit of the tables, and names that are in none
UnitNames ==
    DOMAIN length_units \cup DOMAIN force_units \cup DOMAIN pressure_units
        \cup {"km", "kgf/cm2", "KN", ""}

UnitValues == {RInt(0), RInt(1), Rat(-5, 2)}

\* a call of convert_units
ConvertUnits(value, from_unit, to_unit) ==
    /\ conversion' = [op |-> "convert_units",
                      value |-> value, from_unit |-> from_unit, to_unit |-> to_unit,
                      ret |-> convert_units(value, from_unit, to_unit)]
    /\ UNCHANGED <<disk, io, staticVars, dynamicVars, historyVars, validationVars,
                   windowVars, events, worker>>

(***************************************************************************)
(* utils.save_parameters and utils.load_parameters.  A file name is the    *)
(* list of its parts, an extension being one part; a path holds nothing,   *)
(* a directory, a JSON document or text that is no JSON.  json.dump        *)
(* writes each value as a JSON number, string or null, and json.load       *)
(* reads it back.                                                          *)
(***************************************************************************)
Absent == [kind |-> "absent", document |-> <<>>]
Directory == [kind |-> "directory", document |-> <<>>]
Text == [kind |-> "text", document |-> <<>>]
Json(document) == [kind |-> "json", document |-> document]

\* filename.endswith(suffix), for a suffix that is one part
EndsWith(filename, suffix) == filename # <<>> /\ filename[Len(filename)] = suffix

\* json.dump of a dict of numbers, strings and None
json_dump(items) ==
    [i \in 1..Len(items) |->
        [key |-> items[i].key,
         json |-> IF items[i].value.type = "float" THEN "number"
                  ELSE IF items[i].value.type = "str" THEN "string" ELSE "null",
         number |-> items[i].value.number,
         chars |-> items[i].value.chars]]

\* json.load of a document that is an object
json_load(document) ==
    [i \in 1..Len(document) |->
        [key |-> document[i].key,
         value |-> IF document[i].json = "number" THEN PyNumber(document[i].number)
                   ELSE IF document[i].json = "string" THEN PyString(document[i].chars)
                   ELSE PyNone]]

\* a dict as a value beside None
PyDict(items) == [type |-> "dict", items |-> items]

\* save_parameters: the files after the call, and what it returned.  open()
\* raises for a path that is a directory, and the exception is caught.
save_parameters(record, filename) ==
    LET target == IF ~EndsWith(filename, ".json") THEN Append(filename, ".json")
                  ELSE filename
    IN  IF disk[target].kind = "directory"
        THEN [disk |-> disk, ret |-> Return(FALSE)]
        ELSE [disk |-> [disk EXCEPT ![target] = Json(json_dump(record))],
              ret |-> Return(TRUE)]

\* load_parameters, the mutant: the extension is added as save_parameters adds it
load_parameters_json(filename) ==
    LET target == IF ~EndsWith(filename, ".json") THEN Append(filename, ".json")
                  ELSE filename
    IN  IF disk[target].kind = "json"
        THEN Return(PyDict(json_load(disk[target].document)))
        ELSE Return(PyNone)

\* load_parameters: every exception of open() and json.load is caught
load_parameters(filename) ==
    IF disk[filename].kind = "json"
    THEN Return(PyDict(json_load(disk[filename].document)))
    ELSE Return(PyNone)

\* the file names a caller gives, and the paths of the files
FileNames == {<<"project">>, <<"project", ".json">>, <<"folder">>}
Paths == FileNames \cup {Append(f, ".json") : f \in FileNames}

\* no file but a directory named folder.json
NoDisk == [f \in Paths |-> IF f = <<"folder", ".json">> THEN Directory ELSE Absent]

NoIO == [save |-> NoCall, load |-> NoCall]

\* a call of save_parameters on the dict params
SaveParameters(filename) ==
    /\ LET call == save_parameters(params, filename)
       IN  /\ disk' = call.disk
           /\ io' = [save |-> [op |-> "save_parameters", record |-> params,
                               filename |-> filename, ret |-> call.ret],
                     load |-> NoCall]
    /\ UNCHANGED <<conversion, staticVars, dynamicVars, historyVars, validationVars,
                   windowVars, events, worker>>

\* a call of load_parameters
LoadParameters(filename) ==
    /\ io' = [io EXCEPT !.load = [op |-> "load_parameters", filename |-> filename,
                                  ret |-> load_parameters(filename)]]
    /\ UNCHANGED <<conversion, disk, staticVars, dynamicVars, historyVars,
                   validationVars, windowVars, events, worker>>

(***************************************************************************)
(* The window.  A number of a parameter dict is counted in hundredths,     *)
(* the two decimals QDoubleSpinBox.value() has; a dict is an object of     *)
(* the heap, and an attribute that holds a dict holds its reference.       *)
(***************************************************************************)
\* d[key], for a key the dict has
Lookup(items, key) == items[CHOOSE i \in 1..Len(items) : items[i].key = key].value

\* d.update(other): a key d has keeps its place, another is added at the end
RECURSIVE DictUpdate(_, _)
DictUpdate(items, other) ==
    IF other = <<>> THEN items
    ELSE LET item == Head(other)
             updated ==
                 IF HasKey(items, item.key)
                 THEN [i \in 1..Len(items) |->
                          IF items[i].key = item.key THEN item ELSE items[i]]
                 ELSE Append(items, item)
         IN  DictUpdate(updated, Tail(other))

Item(key, value) == [key |-> key, value |-> value]

\* the keys the four panels give, in the order of their get_parameters
PanelKeys ==
    <<"length", "width", "height", "buried_depth",
      "concrete_strength", "elastic_modulus", "soil_bearing_capacity", "soil_coefficient",
      "static_load", "load_eccentricity_x", "load_eccentricity_y", "dynamic_load",
      "frequency", "equipment_mass",
      "friction_coefficient", "damping_ratio">>

PanelKeySet == {PanelKeys[i] : i \in 1..Len(PanelKeys)}

\* setRange of each widget, in hundredths
SpinRange ==
    [length |-> <<10, 10000>>, width |-> <<10, 10000>>, height |-> <<10, 2000>>,
     buried_depth |-> <<0, 2000>>, concrete_strength |-> <<1000, 6000>>,
     elastic_modulus |-> <<1000000, 5000000>>,
     soil_bearing_capacity |-> <<5000, 100000>>,
     soil_coefficient |-> <<1000000, 20000000>>,
     static_load |-> <<0, 1000000>>, load_eccentricity_x |-> <<-1000, 1000>>,
     load_eccentricity_y |-> <<-1000, 1000>>, dynamic_load |-> <<0, 100000>>,
     frequency |-> <<10, 10000>>, equipment_mass |-> <<10000, 10000000>>,
     friction_coefficient |-> <<10, 100>>, damping_ratio |-> <<1, 20>>]

\* the widgets that are QSpinBox: set_parameters gives them int(float(value))
IntegerKeys == {"elastic_modulus", "soil_coefficient", "equipment_mass"}

\* widget.setValue(number): the number is brought into the range
SetValue(key, number) ==
    LET whole == IF key \in IntegerKeys THEN TDiv(number, 100) * 100 ELSE number
    IN  IF whole < SpinRange[key][1] THEN SpinRange[key][1]
        ELSE IF whole > SpinRange[key][2] THEN SpinRange[key][2]
        ELSE whole

\* set_parameters of the four panels, for a dict whose panel keys hold numbers
set_parameters(panels, items) ==
    [key \in PanelKeySet |->
        IF HasKey(items, key) THEN SetValue(key, Lookup(items, key).number)
        ELSE panels[key]]

\* get_parameters of the four panels, as the items update() is given
get_parameters(panels) ==
    [i \in 1..Len(PanelKeys) |-> Item(PanelKeys[i], PyNumber(panels[PanelKeys[i]]))]

\* the text of a field that no formula reads
PyText(text) == PyString(<<text>>)

Hundredths(whole) == PyNumber(100 * whole)

\* get_default_parameters; the date is the day of the call
get_default_parameters ==
    <<Item("name", PyText("new calculation")),
      Item("date", PyText("today")),
      Item("description", PyText("block foundation calculation")),
      Item("length", Hundredths(3)), Item("width", Hundredths(2)),
      Item("height", Hundredths(1)), Item("buried_depth", PyNumber(50)),
      Item("concrete_strength", Hundredths(30)),
      Item("elastic_modulus", Hundredths(30000)),
      Item("soil_bearing_capacity", Hundredths(200)),
      Item("soil_coefficient", Hundredths(80000)),
      Item("static_load", Hundredths(500)), Item("dynamic_load", Hundredths(50)),
      Item("frequency", Hundredths(10)),
      Item("load_eccentricity_x", Hundredths(0)),
      Item("load_eccentricity_y", Hundredths(0)),
      Item("friction_coefficient", PyNumber(45)), Item("damping_ratio", PyNumber(5)),
      Item("equipment_mass", Hundredths(20000))>>

\* get_example_cases
get_example_cases ==
    << <<Item("name", PyText("pump foundation")),
         Item("description", PyText("centrifugal pump")),
         Item("length", Hundredths(2)), Item("width", PyNumber(120)),
         Item("height", PyNumber(80)), Item("buried_depth", PyNumber(40)),
         Item("concrete_strength", Hundredths(25)),
         Item("elastic_modulus", Hundredths(28000)),
         Item("soil_bearing_capacity", Hundredths(180)),
         Item("soil_coefficient", Hundredths(60000)),
         Item("static_load", Hundredths(120)), Item("dynamic_load", Hundredths(15)),
         Item("frequency", Hundredths(25)),
         Item("load_eccentricity_x", PyNumber(10)),
         Item("load_eccentricity_y", Hundredths(0)),
         Item("friction_coefficient", PyNumber(40)), Item("damping_ratio", PyNumber(5)),
         Item("equipment_mass", Hundredths(5000))>>,
       <<Item("name", PyText("compressor foundation")),
         Item("description", PyText("reciprocating compressor")),
         Item("length", Hundredths(4)), Item("width", PyNumber(250)),
         Item("height", PyNumber(150)), Item("buried_depth", PyNumber(80)),
         Item("concrete_strength", Hundredths(30)),
         Item("elastic_modulus", Hundredths(30000)),
         Item("soil_bearing_capacity", Hundredths(250)),
         Item("soil_coefficient", Hundredths(90000)),
         Item("static_load", Hundredths(800)), Item("dynamic_load", Hundredths(120)),
         Item("frequency", Hundredths(8)),
         Item("load_eccentricity_x", PyNumber(20)),
         Item("load_eccentricity_y", PyNumber(10)),
         Item("friction_coefficient", PyNumber(45)), Item("damping_ratio", PyNumber(8)),
         Item("equipment_mass", Hundredths(30000))>> >>

\* the values the widgets show when the window is built (their setValue)
InitialPanels == set_parameters([key \in PanelKeySet |-> 0], get_default_parameters)

\* a project written earlier: the compressor example and a note of its author
AnnotatedProject == Append(get_example_cases[2], Item("note", PyText("see drawing")))

\* what the user sets in a panel: a widget and the value it is given
PanelEdits == {Item("buried_depth", 150), Item("static_load", 0)}

\* the values the panels can show: those of a dict that was loaded, edited
Sources == {get_default_parameters, get_example_cases[1], get_example_cases[2]}

PanelStates ==
    {[key \in PanelKeySet |->
        IF \E e \in edits : e.key = key
        THEN (CHOOSE e \in edits : e.key = key).value
        ELSE set_parameters(InitialPanels, source)[key]] :
     source \in Sources, edits \in SUBSET PanelEdits}

\* a number of a dict as the float the calculators are given
AsRat(number) == Rat(number, 100)
AsFloat(number) == FDiv(FromInt(number), FromInt(100))
AsGrid(number) == number * 10 * MilliHz

\* the literal 9.81 of line 323
Gravity == FDiv(FromInt(981), FromInt(100))

\* lines 320-324: foundation_mass and total_mass
TotalMass(length, width, height, equipment_mass) ==
    LET foundation_volume == FMul(FMul(length, width), height)
        foundation_weight == FMul(foundation_volume, FromInt(concrete_density))
        foundation_mass == FDiv(FMul(foundation_weight, FromInt(1000)), Gravity)
        total_mass == FAdd(foundation_mass, equipment_mass)
    IN  [foundation_mass |-> foundation_mass, total_mass |-> total_mass]

\* lines 327-331: the static calculator of a dict
StaticCalculator(items) ==
    LET p == [key \in PanelKeySet |-> AsRat(Lookup(items, key).number)]
    IN  StaticAnalysisInit(p.length, p.width, p.height, p.buried_depth,
                           p.concrete_strength, p.elastic_modulus,
                           p.soil_bearing_capacity, p.static_load,
                           <<p.load_eccentricity_x, p.load_eccentricity_y>>,
                           p.friction_coefficient)

\* lines 335-339: the dynamic calculator of a dict
DynamicCalculator(items) ==
    LET p == [key \in PanelKeySet |-> AsFloat(Lookup(items, key).number)]
        mass == TotalMass(p.length, p.width, p.height, p.equipment_mass)
    IN  DynamicAnalysisInit(p.length, p.width, p.height, p.buried_depth,
                            p.concrete_strength, p.elastic_modulus,
                            p.soil_coefficient, p.dynamic_load,
                            AsGrid(Lookup(items, "frequency").number),
                            mass.total_mass, p.damping_ratio)

\* calculate_response_curve() of the calculators the panels can give,
\* computed once
Calculators == {DynamicCalculator(get_parameters(panels)) : panels \in PanelStates}

ResponseCurves == [self \in Calculators |-> calculate_response_curve(self, None)]

\* line 343
ResponseCurveOf(self) ==
    IF self \in Calculators THEN ResponseCurves[self]
    ELSE calculate_response_curve(self, None)

\* lines 345-356: the outcome of the try block once both analyses and the
\* sweep have been called, and the results dict when none of them raised
CalculationResults(ref, mass, static_calculator, static_results, dynamic_calculator, dynamic_results, curve) ==
    IF static_results.raised
    THEN [raised |-> TRUE, built |-> TRUE,
          static_calculator |-> static_calculator,
          dynamic_calculator |-> None]
    ELSE IF dynamic_results.raised
    THEN [raised |-> TRUE, built |-> TRUE,
          static_calculator |-> static_calculator,
          dynamic_calculator |-> dynamic_calculator]
    ELSE IF curve.ret.raised
    THEN [raised |-> TRUE, built |-> TRUE,
          static_calculator |-> static_calculator,
          dynamic_calculator |-> curve.self]
    ELSE [raised |-> FALSE, built |-> TRUE,
          static_calculator |-> static_calculator,
          dynamic_calculator |-> curve.self,
          results |->
              [computed |-> TRUE,
               parameters |-> ref,
               foundation_mass |-> mass.foundation_mass,
               total_mass |-> mass.total_mass,
               static_results |-> static_results.value,
               dynamic_results |-> dynamic_results.value,
               response_curve |-> curve.ret.value,
               is_calculation_book |-> FALSE]]

\* lines 332, 340 and 343: run_analysis() of both calculators, then the sweep
RunAnalyses(ref, mass, static_calculator, dynamic_calculator) ==
    CalculationResults(ref, mass,
                       static_calculator, static_run_analysis(static_calculator),
                       dynamic_calculator, dynamic_run_analysis(dynamic_calculator),
                       ResponseCurveOf(dynamic_calculator))

\* lines 299-356, the try block: whether it raised, the calculators it built
\* and the dict it made, for the dict items held by reference ref
run_calculation(items, ref) ==
    IF \E key \in PanelKeySet : ~HasKey(items, key) \/ PyFloat(Lookup(items, key)).raised
    THEN [raised |-> TRUE, built |-> FALSE]
    ELSE LET p == [key \in PanelKeySet |-> AsFloat(Lookup(items, key).number)]
         IN  RunAnalyses(ref,
                         TotalMass(p.length, p.width, p.height, p.equipment_mass),
                         StaticCalculator(items), DynamicCalculator(items))

\* the references of the heap; two dicts at most are held at a time
MaxRefs == 3
Refs == 1..MaxRefs

NoObject == <<>>
NoResults == [computed |-> FALSE]
NoCalculation == [built |-> FALSE]
NoReport == [called |-> FALSE]
NoHeap == [ref \in Refs |-> NoObject]
NoWindow == [shown |-> FALSE]

\* the dicts the window w holds: current_parameters and results["parameters"]
Live(w) ==
    {w.current_parameters} \cup
        (IF w.results_data.computed THEN {w.results_data.parameters} ELSE {})

\* the reference a new dict gets
NewRef(w) == CHOOSE ref \in Refs \ Live(w) : \A other \in Refs \ Live(w) : ref <= other

\* a dict that nothing holds is freed
Collect(h, w) == [ref \in Refs |-> IF ref \in Live(w) THEN h[ref] ELSE NoObject]

\* MainWindow.__init__
MainWindowInit ==
    [shown |-> TRUE, current_parameters |-> 1, panels |-> InitialPanels,
     results_data |-> NoResults, export_button |-> FALSE,
     export_calc_button |-> FALSE, message |-> "ready"]

\* lines 270-282: the dict is updated in place
update_parameters_from_ui(h, w) ==
    [h EXCEPT ![w.current_parameters] = DictUpdate(@, get_parameters(w.panels))]

\* self.current_parameters = items; self.update_ui_from_parameters()
SetCurrentParameters(w, items) ==
    [w EXCEPT !.current_parameters = NewRef(w),
              !.panels = set_parameters(w.panels, items)]

\* the answers of a question box, the file names of a file dialog (the empty
\* name when it is cancelled)
Replies == {"Yes", "No"}
ProjectNames == {<<>>, <<"project">>, <<"project", ".json">>, <<"folder">>}
ReportNames == {<<>>, <<"report", ".PDF">>, <<"report", ".txt">>, <<"report">>}

\* filename.lower(), part by part
Lower(filename) ==
    [i \in 1..Len(filename) |->
        IF filename[i] = ".PDF" THEN ".pdf"
        ELSE IF filename[i] = ".DOCX" THEN ".docx" ELSE filename[i]]

\* '.' in os.path.basename(filename): a part that is an extension
HasDot(filename) == \E i \in 1..Len(filename) : filename[i] \in {".pdf", ".PDF", ".docx", ".DOCX", ".txt", ".json"}

\* report_generator.generate_report: the writer it calls, the mode it gives
\* the writer, and what it returns when the writer has written the file
generate_report(filename, items, results) ==
    LET is_calculation_book == results.is_calculation_book
        writer == IF EndsWith(Lower(filename), ".pdf") THEN "generate_pdf_report"
                  ELSE IF EndsWith(Lower(filename), ".docx") THEN "generate_word_report"
                  ELSE IF ~HasDot(filename) THEN "generate_pdf_report"
                  ELSE "none"
    IN  [filename |-> filename, params |-> items, results |-> results,
         writer |-> writer, is_calculation_book |-> is_calculation_book,
         success |-> writer # "none"]

\* the variables no handler of the window writes
engineVars == <<staticVars, dynamicVars, historyVars, validationVars, conversion, io, worker>>

\* an event is handled; the window handles MaxEvents events at most
MaxEvents == 3
Handled == events < MaxEvents /\ events' = events + 1

\* new_project, lines 208-223
NewProject(reply) ==
    /\ IF reply = "Yes"
       THEN LET w == [SetCurrentParameters(window, get_default_parameters) EXCEPT
                        !.results_data = NoResults, !.export_button = FALSE,
                        !.export_calc_button = FALSE, !.message = "new project"]
            IN  /\ window' = w
                /\ heap' = Collect([heap EXCEPT ![w.current_parameters] =
                                      get_default_parameters], w)
       ELSE UNCHANGED <<window, heap>>
    /\ UNCHANGED <<calculation, report, disk, engineVars>>

\* open_project, lines 225-240
OpenProject(filename) ==
    /\ IF filename # <<>>
       THEN LET loaded == load_parameters(filename).value
            IN  IF loaded.type = "dict" /\ loaded.items # <<>>
                THEN LET w == [SetCurrentParameters(window, loaded.items) EXCEPT
                                 !.message = "project loaded"]
                     IN  /\ window' = w
                         /\ heap' = Collect([heap EXCEPT ![w.current_parameters] =
                                               loaded.items], w)
                ELSE /\ window' = [window EXCEPT !.message = "cannot load the project"]
                     /\ UNCHANGED heap
       ELSE UNCHANGED <<window, heap>>
    /\ UNCHANGED <<calculation, report, disk, engineVars>>

\* save_project, lines 242-258
SaveProject(filename) ==
    /\ heap' = update_parameters_from_ui(heap, window)
    /\ IF filename # <<>>
       THEN LET call == save_parameters(heap'[window.current_parameters], filename)
            IN  /\ disk' = call.disk
                /\ window' = [window EXCEPT !.message =
                                IF call.ret.value THEN "project saved"
                                ELSE "cannot save the project"]
       ELSE UNCHANGED <<window, disk>>
    /\ UNCHANGED <<calculation, report, engineVars>>

\* load_example, lines 260-268
LoadExample(example_index) ==
    /\ IF 0 <= example_index /\ example_index < Len(get_example_cases)
       THEN LET items == get_example_cases[example_index + 1]
                w == [SetCurrentParameters(window, items) EXCEPT
                        !.message = "example loaded"]
            IN  /\ window' = w
                /\ heap' = Collect([heap EXCEPT ![w.current_parameters] = items], w)
       ELSE UNCHANGED <<window, heap>>
    /\ UNCHANGED <<calculation, report, disk, engineVars>>

\* the user gives a widget of a panel another value
EditPanel(edit) ==
    /\ window' = [window EXCEPT !.panels[edit.key] = SetValue(edit.key, edit.value)]
    /\ UNCHANGED <<heap, calculation, report, disk, engineVars>>

\* run_calculation, lines 292-377
RunCalculation ==
    /\ heap' = update_parameters_from_ui(heap, window)
    /\ \E run \in {run_calculation(heap'[window.current_parameters], window.current_parameters)} :
           /\ calculation' =
                 IF run.built
                 THEN [built |-> TRUE, parameters |-> heap'[window.current_parameters],
                       static_calculator |-> run.static_calculator,
                       dynamic_calculator |-> run.dynamic_calculator]
                 ELSE calculation
           /\ window' =
                 IF run.raised
                 THEN [window EXCEPT !.message = "calculation error"]
                 ELSE [window EXCEPT
                         !.results_data = run.results,
                         !.export_button = TRUE,
                         !.export_calc_button = TRUE,
                         !.message =
                            IF run.results.static_results.overall_safety
                               /\ run.results.dynamic_results.is_safe
                            THEN "the design meets the requirements"
                            ELSE "the design does not meet the requirements"]
    /\ UNCHANGED <<report, disk, engineVars>>

\* clear_inputs, lines 379-390
ClearInputs(reply) ==
    /\ IF reply = "Yes"
       THEN LET w == [SetCurrentParameters(window, get_default_parameters) EXCEPT
                        !.message = "inputs cleared"]
            IN  /\ window' = w
                /\ heap' = Collect([heap EXCEPT ![w.current_parameters] =
                                      get_default_parameters], w)
       ELSE UNCHANGED <<window, heap>>
    /\ UNCHANGED <<calculation, report, disk, engineVars>>

\* export_report, lines 392-426; the menu entry is always enabled
ExportReport(filename) ==
    /\ IF filename # <<>>
       THEN /\ heap' = update_parameters_from_ui(heap, window)
            /\ LET results_data == window.results_data
               IN  IF results_data.computed
                   THEN LET call == generate_report(
                                      filename, heap'[window.current_parameters],
                                      results_data)
                        IN  /\ report' = [called |-> TRUE, action |-> "export_report",
                                           call |-> call]
                            /\ window' = [window EXCEPT !.message =
                                            IF call.success THEN "report exported"
                                            ELSE "cannot generate the report"]
                   ELSE /\ window' = [window EXCEPT !.message = "calculate first"]
                        /\ UNCHANGED report
       ELSE UNCHANGED <<window, heap, report>>
    /\ UNCHANGED <<calculation, disk, engineVars>>

\* export_calculation_book, lines 428-465, behind its button
ExportCalculationBook(filename) ==
    /\ window.export_calc_button
    /\ IF filename # <<>>
       THEN /\ heap' = update_parameters_from_ui(heap, window)
            /\ LET results_data == window.results_data
               IN  IF results_data.computed
                   THEN LET marked == [results_data EXCEPT !.is_calculation_book = TRUE]
                            call == generate_report(
                                      filename, heap'[window.current_parameters],
                                      marked)
                        IN  /\ report' = [called |-> TRUE,
                                           action |-> "export_calculation_book",
                                           call |-> call]
                            /\ window' = [window EXCEPT
                                            !.results_data = marked,
                                            !.message =
                                               IF call.success
                                               THEN "calculation book exported"
                                               ELSE "cannot generate the calculation book"]
                   ELSE /\ window' = [window EXCEPT !.message = "calculate first"]
                        /\ UNCHANGED report
       ELSE UNCHANGED <<window, heap, report>>
    /\ UNCHANGED <<calculation, disk, engineVars>>

\* no second thread
NoWorker == [pc |-> "none"]

(***************************************************************************)
(* Two threads that call into one dynamic calculator.  A thread is where   *)
(* it stands in its call and the local variables of that call; the object  *)
(* is shared.  A thread switch is taken between calls, after the first     *)
(* sample of a sweep, after half of its samples and after the last one.    *)
(***************************************************************************)
Threads == {1, 2}

IdleThread ==
    [pc |-> "idle", op |-> "none", frequencies |-> <<>>, amplitudes |-> <<>>,
     i |-> 0, original_freq |-> 0, ret |-> NoCall]

\* the samples after which another thread may run
SwitchPoints == {1, NumSamples \div 2, NumSamples}

\* the sweep of the default calculator, computed once
DefaultSweep == calculate_response_curve(DefaultDynamic, None)

\* lines 176-178 for the samples first..last of the default domain: the
\* outcome of calculate_amplitude with self.frequency set to each of them
SweepOutcomes(self, frequencies, first, last) ==
    IF [self EXCEPT !.frequency = DefaultDynamic.frequency] = DefaultDynamic
    THEN <<>> \o [j \in 1..(last - first + 1) |->
                    Return(DefaultSweep.ret.value.amplitudes[first + j - 1])]
    ELSE <<>> \o [j \in 1..(last - first + 1) |->
                    calculate_amplitude([self EXCEPT !.frequency = frequencies[first + j - 1]])]

\* lines 160-173: thread t calls calculate_response_curve()
ThreadCall(t) ==
    /\ worker[t].pc = "idle"
    /\ LET domain == ResponseDomain(da, None)
       IN  worker' = [worker EXCEPT ![t] =
                        [pc |-> "loop", op |-> "calculate_response_curve",
                         frequencies |-> <<>> \o Linspace(domain[1], domain[2], NumSamples),
                         amplitudes |-> <<>>, i |-> 0,
                         original_freq |-> da.frequency, ret |-> NoCall]]
    /\ UNCHANGED <<da, sa, static_ret, sweep, dynamic_ret, historyVars, validationVars,
                   utilVars, windowVars, events>>

\* the next switch point after sample i
NextSwitch(i) ==
    CHOOSE p \in SwitchPoints : p > i /\ \A q \in SwitchPoints : q > i => p <= q

\* lines 176-178: thread t runs the loop up to the next switch point
ThreadSamples(t) ==
    /\ worker[t].pc = "loop"
    /\ worker[t].i < NumSamples
    /\ \E self \in {worker[t]}, last \in {NextSwitch(worker[t].i)} :
         \E outcomes \in {SweepOutcomes(da, self.frequencies, self.i + 1, last)} :
           \E raising \in {{j \in 1..Len(outcomes) : outcomes[j].raised}} :
              IF raising # {}
              THEN \E j \in {h \in raising : \A g \in raising : h <= g} :
                     /\ da' = [da EXCEPT !.frequency = self.frequencies[self.i + j]]
                     /\ worker' = [worker EXCEPT ![t] =
                                     [self EXCEPT !.pc = "done", !.i = self.i + j,
                                                  !.ret = Raise]]
              ELSE /\ da' = [da EXCEPT !.frequency = self.frequencies[last]]
                   /\ worker' = [worker EXCEPT ![t] =
                                   [self EXCEPT !.i = last,
                                                !.amplitudes = @ \o
                                                   [j \in 1..Len(outcomes) |-> outcomes[j].value]]]
    /\ UNCHANGED <<sa, static_ret, sweep, dynamic_ret, historyVars, validationVars,
                   utilVars, windowVars, events>>

\* lines 181-183: thread t restores the frequency it saved and returns
ThreadReturn(t) ==
    /\ worker[t].pc = "loop"
    /\ worker[t].i = NumSamples
    /\ da' = [da EXCEPT !.frequency = worker[t].original_freq]
    /\ worker' = [worker EXCEPT ![t] =
                    [@ EXCEPT !.pc = "done",
                              !.ret = Return([frequencies |-> worker[t].frequencies,
                                              amplitudes |-> worker[t].amplitudes])]]
    /\ UNCHANGED <<sa, static_ret, sweep, dynamic_ret, historyVars, validationVars,
                   utilVars, windowVars, events>>

\* thread t calls run_analysis()
ThreadRunAnalysis(t) ==
    /\ worker[t].pc = "idle"
    /\ worker' = [worker EXCEPT ![t] =
                    [IdleThread EXCEPT !.pc = "done", !.op = "run_analysis",
                                       !.ret = dynamic_run_analysis(da)]]
    /\ UNCHANGED <<da, sa, static_ret, sweep, dynamic_ret, historyVars, validationVars,
                   utilVars, windowVars, events>>

(***************************************************************************)
(* Specifications: the calls on a static calculator, and the calls on a    *)
(* dynamic calculator, each on an object built from the inputs.            *)
(***************************************************************************)
\* no call has come back yet
InitHistory ==
    /\ curves = NoCurves
    /\ runs = NoRuns

\* validate_parameters is not called
InitNoValidation ==
    /\ params = <<>>
    /\ required_fields = <<>>
    /\ validate_ret = NoCall

\* no file, no window and no second thread
InitRest ==
    /\ conversion = NoCall
    /\ disk = NoDisk
    /\ io = NoIO
    /\ heap = NoHeap
    /\ window = NoWindow
    /\ calculation = NoCalculation
    /\ report = NoReport
    /\ events = 0
    /\ worker = NoWorker

InitStatic ==
    /\ \E l \in Lengths, w \in Widths, h \in Heights, d \in BuriedDepths,
          q \in BearingCapacities, p \in StaticLoads,
          ex \in Eccentricities, ey \in Eccentricities, mu \in Frictions :
            sa = StaticAnalysisInit(l, w, h, d, DefaultConcreteStrength,
                                    DefaultElasticModulus, q, p, <<ex, ey>>, mu)
    /\ static_ret = NoCall
    /\ da = DefaultDynamic
    /\ sweep = IdleFrame(DefaultDynamic, None)
    /\ dynamic_ret = NoCall
    /\ InitHistory
    /\ InitNoValidation
    /\ InitRest

NextStatic ==
    \/ SlidingStability /\ UNCHANGED otherVars
    \/ OverturningStability /\ UNCHANGED otherVars
    \/ BearingCapacity /\ UNCHANGED otherVars
    \/ StaticRunAnalysis /\ UNCHANGED otherVars

SpecStatic == InitStatic /\ [][NextStatic]_vars

InitDynamic ==
    /\ sa = DefaultStatic
    /\ static_ret = NoCall
    /\ \E c \in SoilCoefficients, f \in Frequencies :
            da = DynamicAnalysisInit(FromInt(3), FromInt(2), FromInt(1),
                                     FDiv(FromInt(1), FromInt(2)), FromInt(30),
                                     FromInt(30000), c, FromInt(50), f,
                                     FromInt(40000), DefaultDampingRatio)
    /\ sweep = IdleFrame(da, None)
    /\ dynamic_ret = NoCall
    /\ InitHistory
    /\ InitNoValidation
    /\ InitRest

NextDynamic ==
    \/ CalculateAmplitude /\ UNCHANGED otherVars
    \/ \E freq_range \in FreqRanges :
            CallResponseCurve(freq_range) /\ UNCHANGED otherVars
    \/ SweepAssign /\ UNCHANGED otherVars
    \/ SweepAppend /\ UNCHANGED otherVars
    \/ SweepRaise /\ UNCHANGED otherVars
    \/ SweepReturn /\ UNCHANGED otherVars

SpecDynamic == InitDynamic /\ [][NextDynamic]_vars

(***************************************************************************)
(* The single calls on dynamic calculators built from more inputs: the     *)
(* excitation frequencies are 0, the ends of the resonance band of the     *)
(* 40000 kg object and their neighbours, the natural frequency, and 10 Hz. *)
(***************************************************************************)
RunFrequencies == {0, 440500, 440600, 551000, 662 * MilliHz, 663 * MilliHz, 10 * Hz}
DampingRatios == {FZero, DefaultDampingRatio, FDiv(FromInt(5), FromInt(10))}
DynamicLoads == {FromInt(50), FromInt(72)}

InitRun ==
    /\ sa = DefaultStatic
    /\ static_ret = NoCall
    /\ \E c \in SoilCoefficients, f \in RunFrequencies,
          zeta \in DampingRatios, p \in DynamicLoads :
            da = DynamicAnalysisInit(FromInt(3), FromInt(2), FromInt(1),
                                     FDiv(FromInt(1), FromInt(2)), FromInt(30),
                                     FromInt(30000), c, p, f,
                                     FromInt(40000), zeta)
    /\ sweep = IdleFrame(da, None)
    /\ dynamic_ret = NoCall
    /\ InitHistory
    /\ InitNoValidation
    /\ InitRest

NextRun ==
    \/ CalculateFrequencyRatio /\ UNCHANGED otherVars
    \/ CalculateTransmissibility /\ UNCHANGED otherVars
    \/ CalculateAmplitude /\ UNCHANGED otherVars
    \/ IsResonanceRisk /\ UNCHANGED otherVars
    \/ DynamicRunAnalysis /\ UNCHANGED otherVars

SpecRun == InitRun /\ [][NextRun]_vars

(***************************************************************************)
(* Repeated sweeps on one dynamic calculator, each a whole call, with      *)
(* calculate_amplitude and run_analysis between them, and the history of   *)
(* the curves.                                                             *)
(***************************************************************************)
InitRepeat ==
    /\ sa = DefaultStatic
    /\ static_ret = NoCall
    /\ \E c \in SoilCoefficients, f \in {0, 551000, 10 * Hz},
          zeta \in DampingRatios \ {FZero} :
            da = DynamicAnalysisInit(FromInt(3), FromInt(2), FromInt(1),
                                     FDiv(FromInt(1), FromInt(2)), FromInt(30),
                                     FromInt(30000), c, FromInt(50), f,
                                     FromInt(40000), zeta)
    /\ sweep = IdleFrame(da, None)
    /\ dynamic_ret = NoCall
    /\ InitHistory
    /\ InitNoValidation
    /\ InitRest

NextRepeat ==
    \/ CalculateAmplitude /\ UNCHANGED otherVars
    \/ DynamicRunAnalysis /\ UNCHANGED otherVars
    \/ \E freq_range \in RepeatRanges :
            /\ ResponseCurve(freq_range)
            /\ RecordCurve(freq_range)
            /\ UNCHANGED <<runs, validationVars, restVars>>

SpecRepeat == InitRepeat /\ [][NextRepeat]_vars

(***************************************************************************)
(* Repeated calls of run_analysis on one static and one dynamic            *)
(* calculator, with sweeps of the default domain (each a whole call)       *)
(* between them, and the history of the outcomes.                          *)
(***************************************************************************)
InitRuns ==
    /\ \E p \in StaticLoads :
            sa = StaticAnalysisInit(RInt(3), RInt(2), RInt(1), Rat(1, 2),
                                    DefaultConcreteStrength, DefaultElasticModulus,
                                    RInt(200), p, <<RInt(0), RInt(0)>>, Rat(45, 100))
    /\ static_ret = NoCall
    /\ \E c \in {FromInt(0), FromInt(80000)} :
            da = DynamicAnalysisInit(FromInt(3), FromInt(2), FromInt(1),
                                     FDiv(FromInt(1), FromInt(2)), FromInt(30),
                                     FromInt(30000), c, FromInt(50), 10 * Hz,
                                     FromInt(40000), DefaultDampingRatio)
    /\ sweep = IdleFrame(da, None)
    /\ dynamic_ret = NoCall
    /\ InitHistory
    /\ InitNoValidation
    /\ InitRest

NextRuns ==
    \/ /\ sweep.pc = "idle"
       /\ StaticRunAnalysis
       /\ RecordRun("static", static_ret')
       /\ UNCHANGED <<curves, validationVars, restVars>>
    \/ /\ DynamicRunAnalysis
       /\ RecordRun("dynamic", dynamic_ret')
       /\ UNCHANGED <<curves, validationVars, restVars>>
    \/ ResponseCurve(None) /\ UNCHANGED otherVars

SpecRuns == InitRuns /\ [][NextRuns]_vars

(***************************************************************************)
(* The calls of validate_parameters.                                       *)
(***************************************************************************)
InitValidate ==
    /\ sa = DefaultStatic
    /\ static_ret = NoCall
    /\ da = DefaultDynamic
    /\ sweep = IdleFrame(DefaultDynamic, None)
    /\ dynamic_ret = NoCall
    /\ InitHistory
    /\ params \in Dicts
    /\ required_fields \in RequiredLists
    /\ validate_ret = NoCall
    /\ InitRest

NextValidate ==
    \/ ValidateParameters
    \/ NewParameters

SpecValidate == InitValidate /\ [][NextValidate]_vars

(***************************************************************************)
(* The calls of convert_units.                                             *)
(***************************************************************************)
InitConvert ==
    /\ sa = DefaultStatic
    /\ static_ret = NoCall
    /\ da = DefaultDynamic
    /\ sweep = IdleFrame(DefaultDynamic, None)
    /\ dynamic_ret = NoCall
    /\ InitHistory
    /\ InitNoValidation
    /\ InitRest

NextConvert ==
    \E value \in UnitValues, from_unit \in UnitNames, to_unit \in UnitNames :
        ConvertUnits(value, from_unit, to_unit)

SpecConvert == InitConvert /\ [][NextConvert]_vars

(***************************************************************************)
(* The calls of save_parameters and load_parameters on one dict, with or   *)
(* without a file that was there before.                                   *)
(***************************************************************************)
InitFiles ==
    /\ sa = DefaultStatic
    /\ static_ret = NoCall
    /\ da = DefaultDynamic
    /\ sweep = IdleFrame(DefaultDynamic, None)
    /\ dynamic_ret = NoCall
    /\ InitHistory
    /\ params \in Dicts \cup {get_default_parameters}
    /\ required_fields = <<>>
    /\ validate_ret = NoCall
    /\ conversion = NoCall
    /\ disk \in {NoDisk, [NoDisk EXCEPT ![<<"project">>] = Json(json_dump(AnnotatedProject))]}
    /\ io = NoIO
    /\ heap = NoHeap
    /\ window = NoWindow
    /\ calculation = NoCalculation
    /\ report = NoReport
    /\ events = 0
    /\ worker = NoWorker

NextFiles ==
    \/ \E filename \in FileNames : SaveParameters(filename)
    \/ \E filename \in FileNames : LoadParameters(filename)

SpecFiles == InitFiles /\ [][NextFiles]_vars

(***************************************************************************)
(* The window, from its construction: every handler, with the answers and  *)
(* file names the dialogs can give.  The project file holds a project      *)
(* written earlier.                                                        *)
(***************************************************************************)
InitWindow ==
    /\ sa = DefaultStatic
    /\ static_ret = NoCall
    /\ da = DefaultDynamic
    /\ sweep = IdleFrame(DefaultDynamic, None)
    /\ dynamic_ret = NoCall
    /\ InitHistory
    /\ InitNoValidation
    /\ conversion = NoCall
    /\ disk = [NoDisk EXCEPT ![<<"project", ".json">>] = Json(json_dump(AnnotatedProject))]
    /\ io = NoIO
    /\ heap = [NoHeap EXCEPT ![1] = get_default_parameters]
    /\ window = MainWindowInit
    /\ calculation = NoCalculation
    /\ report = NoReport
    /\ events = 0
    /\ worker = NoWorker

NextWindow ==
    \/ \E reply \in Replies : NewProject(reply) /\ Handled
    \/ \E filename \in ProjectNames : OpenProject(filename) /\ Handled
    \/ \E filename \in ProjectNames : SaveProject(filename) /\ Handled
    \/ \E example_index \in {0, 1} : LoadExample(example_index) /\ Handled
    \/ \E edit \in PanelEdits : EditPanel(edit) /\ Handled
    \/ RunCalculation /\ Handled
    \/ \E reply \in Replies : ClearInputs(reply) /\ Handled
    \/ \E filename \in ReportNames : ExportReport(filename) /\ Handled
    \/ \E filename \in ReportNames : ExportCalculationBook(filename) /\ Handled

SpecWindow == InitWindow /\ [][NextWindow]_vars

(***************************************************************************)
(* Two threads on the default dynamic calculator: each calls               *)
(* calculate_response_curve() or run_analysis() once.                      *)
(***************************************************************************)
InitParallel ==
    /\ sa = DefaultStatic
    /\ static_ret = NoCall
    /\ da = DefaultDynamic
    /\ sweep = IdleFrame(DefaultDynamic, None)
    /\ dynamic_ret = NoCall
    /\ InitHistory
    /\ InitNoValidation
    /\ conversion = NoCall
    /\ disk = NoDisk
    /\ io = NoIO
    /\ heap = NoHeap
    /\ window = NoWindow
    /\ calculation = NoCalculation
    /\ report = NoReport
    /\ events = 0
    /\ worker = [t \in Threads |-> IdleThread]

NextParallel ==
    \/ \E t \in Threads : ThreadCall(t)
    \/ \E t \in Threads : ThreadSamples(t)
    \/ \E t \in Threads : ThreadReturn(t)
    \/ \E t \in Threads : ThreadRunAnalysis(t)

SpecParallel == InitParallel /\ [][NextParallel]_vars

Init == InitStatic

Next == NextStatic

Spec == SpecStatic

(***************************************************************************)
(* The claims about the static calculator, checked under SpecStatic.       *)
(***************************************************************************)
BaseArea == RMul(sa.length, sa.width)
ConcreteWeight == RMul(RMul(BaseArea, sa.height), RInt(25))
TotalLoad == RAdd(sa.self_weight, sa.static_load)
AbsEx == RAbs(sa.load_eccentricity[1])
AbsEy == RAbs(sa.load_eccentricity[2])
HalfLength == RDiv(sa.length, RInt(2))

Returned(op) == static_ret.op = op /\ ~static_ret.raised

\* C1: self_weight is L*W*H*25 when buried_depth <= height (no soil term, also
\* at buried_depth = height), and L*W*H*25 + L*W*(buried_depth - height)*18
\* when buried_depth > height.
C1_SelfWeight ==
    IF RLe(sa.buried_depth, sa.height)
    THEN sa.self_weight = ConcreteWeight
    ELSE sa.self_weight =
            RAdd(ConcreteWeight,
                 RMul(RMul(BaseArea, RSub(sa.buried_depth, sa.height)), RInt(18)))

\* a foundation buried deeper than it is high, whose weight has the soil term
C1_Witness ==
    /\ RGt(sa.buried_depth, sa.height)
    /\ RGt(sa.self_weight, ConcreteWeight)

C4_Bearing ==
    static_ret.op = "bearing_capacity" =>
        LET effective_area ==
                RMul(RSub(sa.length, RMul(RInt(2), AbsEx)),
                     RSub(sa.width, RMul(RInt(2), AbsEy)))
        IN  /\ ~static_ret.raised
            /\ IF RLe(effective_area, Zero)
               THEN /\ IsInf(static_ret.value.actual_pressure)
                    /\ ~static_ret.value.is_safe
               ELSE /\ static_ret.value.actual_pressure =
                           RDiv(TotalLoad, effective_area)
                    /\ static_ret.value.is_safe =
                           RLe(static_ret.value.actual_pressure,
                               sa.soil_bearing_capacity)

\* bearing_capacity has returned for an eccentricity that leaves no contact area
C4_Witness ==
    /\ Returned("bearing_capacity")
    /\ RMul(RSub(sa.length, RMul(RInt(2), AbsEx)),
            RSub(sa.width, RMul(RInt(2), AbsEy))) = Zero
    /\ IsInf(static_ret.value.actual_pressure)

\* C5: with static_load = 0 the sliding factor is +infinity and sliding is
\* safe; with an overturning moment of 0 (static_load = 0 or buried_depth = 0)
\* the overturning factor is +infinity and overturning is safe; run_analysis
\* does not raise for these inputs.
C5_Sentinels ==
    /\ (static_ret.op = "sliding_stability" /\ sa.static_load = Zero) =>
            /\ ~static_ret.raised
            /\ IsInf(static_ret.value.safety_factor)
            /\ static_ret.value.is_safe
    /\ ( /\ static_ret.op = "overturning_stability"
         /\ (sa.static_load = Zero \/ sa.buried_depth = Zero) ) =>
            /\ ~static_ret.raised
            /\ IsInf(static_ret.value.safety_factor)
            /\ static_ret.value.is_safe
    /\ ( /\ static_ret.op = "run_analysis"
         /\ (sa.static_load = Zero \/ sa.buried_depth = Zero) ) =>
            /\ ~static_ret.raised
            /\ IsInf(static_ret.value.overturning_stability.safety_factor)
            /\ static_ret.value.overturning_stability.is_safe
            /\ sa.static_load = Zero =>
                /\ IsInf(static_ret.value.sliding_stability.safety_factor)
                /\ static_ret.value.sliding_stability.is_safe

\* run_analysis has returned for a foundation that carries no static load
C5_Witness ==
    /\ Returned("run_analysis")
    /\ sa.static_load = Zero
    /\ IsInf(static_ret.value.sliding_stability.safety_factor)
    /\ IsInf(static_ret.value.overturning_stability.safety_factor)

\* C6: in every result of run_analysis, overall_safety is true exactly when
\* the three is_safe flags are all true, and total_weight is
\* self_weight + static_load.
C6_Overall ==
    static_ret.op = "run_analysis" =>
        /\ ~static_ret.raised
        /\ static_ret.value.overall_safety =
               ( /\ static_ret.value.sliding_stability.is_safe
                 /\ static_ret.value.overturning_stability.is_safe
                 /\ static_ret.value.bearing_capacity.is_safe )
        /\ static_ret.value.total_weight =
               RAdd(static_ret.value.self_weight, sa.static_load)
        /\ static_ret.value.self_weight = sa.self_weight

\* run_analysis has returned a result that fails on the bearing check alone
C6_Witness ==
    /\ Returned("run_analysis")
    /\ static_ret.value.sliding_stability.is_safe
    /\ static_ret.value.overturning_stability.is_safe
    /\ ~static_ret.value.bearing_capacity.is_safe
    /\ ~static_ret.value.overall_safety

\* C7: with the geometry, the load and the eccentricity fixed, the sliding
\* factor does not decrease when friction_coefficient grows: the factor
\* returned is <= the factor of the same calculator with any larger
\* coefficient (both +infinity at static_load = 0).
C7_Monotone ==
    static_ret.op = "sliding_stability" =>
        /\ ~static_ret.raised
        /\ \A mu \in Frictions :
            RLe(sa.friction_coefficient, mu) =>
                LET other == sliding_stability([sa EXCEPT !.friction_coefficient = mu])
                IN  /\ ~other.raised
                    /\ RLe(static_ret.value.safety_factor, other.value.safety_factor)

\* sliding_stability has returned a finite factor that a larger coefficient
\* strictly raises
C7_Witness ==
    /\ Returned("sliding_stability")
    /\ ~IsInf(static_ret.value.safety_factor)
    /\ \E mu \in Frictions :
        /\ RLt(sa.friction_coefficient, mu)
        /\ RLt(static_ret.value.safety_factor,
               sliding_stability([sa EXCEPT !.friction_coefficient = mu])
                   .value.safety_factor)

(***************************************************************************)
(* The claims about the response curve, checked under SpecDynamic.         *)
(***************************************************************************)
CurveReturned ==
    dynamic_ret.op = "calculate_response_curve" /\ ~dynamic_ret.raised

\* the domain of the last call: the one given, or the default one
DomainGiven == sweep.freq_range # None
DefaultEnd ==
    LET three_fn == ToGrid(FMul(sweep.entry.natural_frequency, FromInt(3)))
    IN  IF three_fn <= 100 * MilliHz THEN 100 * MilliHz + 50 * Hz ELSE three_fn

\* C8: at no point during calculate_response_curve, not even between two
\* samples, does self.frequency differ from the value it had when the sweep
\* was called.
C8_NeverMutated ==
    sweep.pc # "idle" => da.frequency = sweep.entry.frequency

\* C9: after calculate_response_curve returns, the excitation frequency equals
\* its value before the call, and spring_constant, natural_frequency,
\* total_mass, damping_ratio and dynamic_load are unchanged.
C9_Restored ==
    CurveReturned =>
        /\ da.frequency = sweep.entry.frequency
        /\ da.spring_constant = sweep.entry.spring_constant
        /\ da.natural_frequency = sweep.entry.natural_frequency
        /\ da.total_mass = sweep.entry.total_mass
        /\ da.damping_ratio = sweep.entry.damping_ratio
        /\ da.dynamic_load = sweep.entry.dynamic_load

\* a sweep has returned whose samples all differ from the configured frequency
C9_Witness ==
    /\ CurveReturned
    /\ Len(dynamic_ret.value.frequencies) = NumSamples
    /\ \A i \in 1..NumSamples : dynamic_ret.value.frequencies[i] # da.frequency
    /\ da.frequency = 10 * Hz

\* what C10 says of the returned arrays apart from their order
CurveShape(frequencies, amplitudes) ==
    /\ Len(frequencies) = 1000
    /\ Len(amplitudes) = 1000
    /\ \A i \in 1..998 :
        frequencies[i + 1] - frequencies[i] = frequencies[i + 2] - frequencies[i + 1]
    /\ IF DomainGiven
       THEN /\ frequencies[1] = sweep.freq_range[1]
            /\ frequencies[1000] = sweep.freq_range[2]
       ELSE /\ frequencies[1] = 100 * MilliHz
            /\ frequencies[1000] = DefaultEnd
    /\ \A i \in 1..1000 :
        LET one == calculate_amplitude([sweep.entry EXCEPT !.frequency = frequencies[i]])
        IN  ~one.raised /\ amplitudes[i] = one.value

Ascending(frequencies) ==
    \A i \in 1..(Len(frequencies) - 1) : frequencies[i] <= frequencies[i + 1]

Descending(frequencies) ==
    \A i \in 1..(Len(frequencies) - 1) : frequencies[i] >= frequencies[i + 1]

\* C10 as claimed: calculate_response_curve returns exactly 1000 samples,
\* evenly spaced and in ascending frequency order for every domain, default or
\* given by the caller; the default domain starts at 0.1 Hz and ends at 3*f_n,
\* or at start + 50 Hz when 3*f_n <= 0.1; each amplitude is what
\* calculate_amplitude yields with that frequency as the excitation frequency.
C10_AscendingEveryDomain ==
    CurveReturned =>
        /\ CurveShape(dynamic_ret.value.frequencies, dynamic_ret.value.amplitudes)
        /\ Ascending(dynamic_ret.value.frequencies)

\* C10 as amended: the same, with the samples in ascending order when the
\* domain's start is not above its end, as it never is for the default domain,
\* and in descending order when the caller gives a start above the end.
C10_OrderOfTheDomain ==
    CurveReturned =>
        /\ CurveShape(dynamic_ret.value.frequencies, dynamic_ret.value.amplitudes)
        /\ ~DomainGiven => Ascending(dynamic_ret.value.frequencies)
        /\ (DomainGiven /\ sweep.freq_range[1] <= sweep.freq_range[2]) =>
                Ascending(dynamic_ret.value.frequencies)
        /\ (DomainGiven /\ sweep.freq_range[1] > sweep.freq_range[2]) =>
                /\ Descending(dynamic_ret.value.frequencies)
                /\ ~Ascending(dynamic_ret.value.frequencies)

\* a sweep over the default domain has returned for a natural frequency so low
\* that the domain ends at 50.1 Hz
C10_Witness ==
    /\ CurveReturned
    /\ ~DomainGiven
    /\ FLt(FZero, sweep.entry.natural_frequency)
    /\ Len(dynamic_ret.value.amplitudes) = NumSamples
    /\ dynamic_ret.value.frequencies[NumSamples] = 50 * Hz + 100 * MilliHz
    /\ dynamic_ret.value.frequencies[1] < dynamic_ret.value.frequencies[2]

(***************************************************************************)
(* The dynamic calculator: single calls, repeated calls.                   *)
(***************************************************************************)
DynamicReturned(op) == dynamic_ret.op = op /\ ~dynamic_ret.raised

\* |x - y| <= y / 100, for finite x and y >= 0
Within1Percent(x, y) ==
    LET diff == FSub(x, y)
        abs == IF diff.m < 0 THEN FNeg(diff) ELSE diff
    IN  FLe(abs, FDiv(y, FromInt(100)))

\* two outcomes of a call are the same: both raised, or both returned the same value
SameOutcome(a, b) ==
    /\ a.op = b.op
    /\ a.raised = b.raised
    /\ a.value = b.value

\* the loop and the whole call agree: when the loop has left the call, the
\* object and the outcome are those of calculate_response_curve on the object
\* as it was at the call (an invariant of SpecDynamic)
LoopIsWholeCall ==
    dynamic_ret.op = "calculate_response_curve" =>
        LET call == calculate_response_curve(sweep.entry, sweep.freq_range)
        IN  /\ da = call.self
            /\ dynamic_ret.raised = call.ret.raised
            /\ dynamic_ret.value = call.ret.value

\* C11: every curve that calculate_response_curve returns for a domain is the
\* curve its first call returned for that domain on the same object, frequencies
\* and amplitudes alike, whatever calls of calculate_amplitude and run_analysis
\* were made in between.
C11_Idempotent ==
    CurveReturned =>
        LET first == curves[sweep.freq_range]
        IN  /\ first.returned
            /\ dynamic_ret.value.frequencies = first.frequencies
            /\ dynamic_ret.value.amplitudes = first.amplitudes

\* a second curve has come back for the domain of the last call
C11_Witness ==
    /\ CurveReturned
    /\ curves[sweep.freq_range].repeated

\* the seven keys of the dict that run_analysis returns
DynamicResultKeys ==
    {"natural_frequency", "frequency_ratio", "transmissibility", "amplitude",
     "allowable_amplitude", "is_safe", "resonance_risk"}

C13_NaturalFrequency ==
    LET omega == FMul(FMul(FromInt(2), Pi), da.natural_frequency)
        example == FNorm(5513, -4)
        tolerance == FNorm(2000, -7)
        diff == FSub(da.natural_frequency, example)
    IN  /\ Within1Percent(FSquare(omega), FDiv(da.spring_constant, da.total_mass))
        /\ (da.spring_constant = FromInt(480000) /\ da.total_mass = FromInt(40000))
              => /\ FLe(diff, tolerance)
                 /\ FLe(FNeg(diff), tolerance)

C13_Witness ==
    /\ da.spring_constant = FromInt(480000)
    /\ da.total_mass = FromInt(40000)
    /\ DynamicReturned("run_analysis")
    /\ dynamic_ret.value.natural_frequency = da.natural_frequency

\* C14: calculate_frequency_ratio returns and does not raise; with a positive
\* natural frequency the value r is finite and r * f_n is the frequency (to 1%),
\* with a natural frequency of 0 the value is +infinity.
C14_FrequencyRatio ==
    dynamic_ret.op = "calculate_frequency_ratio" =>
        /\ ~dynamic_ret.raised
        /\ IF da.natural_frequency.m > 0
           THEN /\ IsFinite(dynamic_ret.value)
                /\ Within1Percent(FMul(dynamic_ret.value, da.natural_frequency),
                                  FromGrid(da.frequency))
           ELSE dynamic_ret.value = FInf

\* the ratio of an object whose natural frequency is 0
C14_Witness ==
    /\ DynamicReturned("calculate_frequency_ratio")
    /\ FIsZero(da.natural_frequency)
    /\ dynamic_ret.value = FInf

C16_ZeroRatio ==
    (da.frequency = 0 /\ da.natural_frequency.m > 0) =>
        /\ dynamic_ret.op = "calculate_transmissibility" =>
              /\ ~dynamic_ret.raised
              /\ dynamic_ret.value = FOne
        /\ dynamic_ret.op = "calculate_amplitude" =>
              /\ ~dynamic_ret.raised
              /\ dynamic_ret.value =
                    FMul(FDiv(da.dynamic_load, da.spring_constant), FromInt(1000))
              /\ (da.dynamic_load = FromInt(72)
                      /\ da.spring_constant = FromInt(480000))
                    => dynamic_ret.value = FNorm(15, -2)

\* the amplitude at r = 0 of an undamped object
C16_Witness ==
    /\ DynamicReturned("calculate_amplitude")
    /\ da.frequency = 0
    /\ da.natural_frequency.m > 0
    /\ FIsZero(da.damping_ratio)
    /\ dynamic_ret.value = FNorm(15, -2)

\* 0.8 <= r <= 1.2, on the digits of r: false for inf and nan
InBand(r) ==
    /\ IsFinite(r)
    /\ \/ r.e = -4 /\ r.m >= 8000
       \/ r.e = -3 /\ r.m >= 1000 /\ r.m <= 1200

\* C17 as stated: for every frequency ratio r of the object, +infinity
\* included, is_resonance_risk returns, and run_analysis returns a result whose
\* field resonance_risk is, the truth of 0.8 <= r <= 1.2.
C17_ResonanceBand ==
    LET r == calculate_frequency_ratio(da)
    IN  /\ dynamic_ret.op = "is_resonance_risk" =>
              /\ ~dynamic_ret.raised
              /\ dynamic_ret.value[1] = InBand(r)
        /\ dynamic_ret.op = "run_analysis" =>
              /\ ~dynamic_ret.raised
              /\ dynamic_ret.value.resonance_risk = InBand(r)

\* C18: a result of run_analysis has allowable_amplitude = 0.15, and is_safe is
\* true exactly when the amplitude is a number at most 0.15 (0.15 itself
\* included), whatever resonance_risk is.
C18_AllowableAmplitude ==
    DynamicReturned("run_analysis") =>
        LET result == dynamic_ret.value
            limit == FNorm(15, -2)
        IN  /\ result.allowable_amplitude = limit
            /\ result.is_safe =
                  (IsFinite(result.amplitude) /\ FLe(result.amplitude, limit))

\* a result whose amplitude is exactly 0.15
C18_Witness ==
    /\ DynamicReturned("run_analysis")
    /\ dynamic_ret.value.amplitude = FNorm(15, -2)
    /\ dynamic_ret.value.is_safe

\* C19: run_analysis leaves the fields of its calculator as they were, and
\* every outcome of run_analysis on a calculator is the outcome of the first
\* call on it, with or without sweeps in between.
C19_RunAnalysisPure ==
    [][/\ sa' = sa
       /\ dynamic_ret'.op = "run_analysis" => da' = da
       /\ static_ret'.op = "run_analysis" =>
             SameOutcome(static_ret', runs'.static.first)
       /\ dynamic_ret'.op = "run_analysis" =>
             SameOutcome(dynamic_ret', runs'.dynamic.first)]_vars

\* run_analysis has come back a second time on both calculators
C19_Witness ==
    /\ runs.static.repeated
    /\ runs.dynamic.repeated
    /\ DynamicReturned("run_analysis")
    /\ Returned("run_analysis")

(***************************************************************************)
(* validate_parameters                                                     *)
(***************************************************************************)
\* the value is a number, or a string that is one
IsNumeric(value) ==
    \/ value.type = "float"
    \/ value = PyString(<<"1", "2">>)
    \/ value = PyString(<<"-", "1">>)

\* the number of a numeric value of the inputs
NumberOf(value) ==
    IF value.type = "float" THEN value.number
    ELSE IF value = PyString(<<"1", "2">>) THEN 12 ELSE -1

NumericItems == {i \in 1..Len(params) : params[i].key \notin TextFields}

\* the three reasons for which C20 has the dict refused
MissingRequired ==
    \E f \in 1..Len(required_fields) : ~HasKey(params, required_fields[f])
HoldsNonNumeric == \E i \in NumericItems : ~IsNumeric(params[i].value)
HoldsNegative ==
    \E i \in NumericItems :
        /\ IsNumeric(params[i].value)
        /\ NumberOf(params[i].value) < 0
        /\ params[i].key \notin SignedFields

\* C20 as stated: validate_parameters never raises; it returns (False, message)
\* when a required field is missing, when a field that is not a text field
\* holds a value that is no number (None included), or when a numeric field
\* other than the eccentricities is negative, and (True, '') otherwise.
C20_NeverRaises ==
    validate_ret.op = "validate_parameters" =>
        /\ ~validate_ret.raised
        /\ validate_ret.value[1] =
              ~(MissingRequired \/ HoldsNonNumeric \/ HoldsNegative)
        /\ validate_ret.value[1] => validate_ret.value[2] = NoMessage

(***************************************************************************)
(* The window and the utility functions.                                   *)
(***************************************************************************)
\* the dict the calculators of the last run were built from passes
\* validate_parameters with the keys of the panels as required fields
PassesValidation(items) ==
    LET checked == validate_parameters(items, PanelKeys)
    IN  ~checked.raised /\ checked.value[1]

\* C21: in every execution of run_calculation, validation comes before the
\* calculators: neither StaticAnalysis nor DynamicAnalysis is constructed or
\* run on a parameter record that fails validate_parameters.
C21_ValidatedBeforeCalculators ==
    calculation.built => PassesValidation(calculation.parameters)

\* the unit families: length, force and pressure
UnitFamilies ==
    {{"m", "cm", "mm"}, {"kN", "N", "tf", "kgf"}, {"kPa", "MPa", "Pa", "kgf/cm^2"}}

SameFamily(from_unit, to_unit) ==
    \E family \in UnitFamilies : from_unit \in family /\ to_unit \in family

\* C22: whenever from_unit and to_unit are not both members of one unit
\* family, a known unit paired with a unit of another family included,
\* convert_units raises the invalid-unit error and returns no value.
C22_UnsupportedPairRaises ==
    conversion.op = "convert_units" /\ ~SameFamily(conversion.from_unit, conversion.to_unit)
        => conversion.ret.raised /\ conversion.ret = ValueError

\* a length in metres was to be converted to kilonewtons, and the call raised
C22_Witness ==
    /\ conversion.op = "convert_units"
    /\ conversion.from_unit = "m" /\ conversion.to_unit = "kN"
    /\ conversion.value = RInt(1)
    /\ conversion.ret.raised

\* C23: round trip: for any parameter record and any filename, when
\* save_parameters(params, filename) has returned True, load_parameters with
\* the same filename returns a record equal to the one saved.
C23_RoundTrip ==
    /\ io.save.op = "save_parameters" /\ io.save.ret.value = TRUE
    /\ io.load.op = "load_parameters" /\ io.load.filename = io.save.filename
    => io.load.ret.value = PyDict(io.save.record)

\* a mass in whole kilograms: a float of the dynamic calculator, and the
\* mass of a weight in kN under the gravity of 9.81
MassKg(x) == IF x.e >= 0 THEN x.m * Pow10(x.e) ELSE x.m \div Pow10(-x.e)
WeightKg(weight) == (weight.n * 100000) \div (weight.d * 981)

\* the total mass that follows from the self-weight of the static calculator
MassFromSelfWeight ==
    WeightKg(calculation.static_calculator.self_weight)
        + Lookup(calculation.parameters, "equipment_mass").number \div 100

\* C24: in every calculation run the total mass given to the dynamic
\* calculator is self_weight * 1000 / 9.81 + equipment_mass, with the
\* self_weight of the static calculator, for every geometry (buried_depth >
\* height included); equal up to the rounding of the floats, one part in a
\* hundred.
C24_MassFromSelfWeight ==
    calculation.built /\ calculation.dynamic_calculator # None =>
        Abs(MassKg(calculation.dynamic_calculator.total_mass) - MassFromSelfWeight) * 100
            <= MassFromSelfWeight

\* the same holds in the runs whose foundation is not buried deeper than it is high
ShallowMassesAgree ==
    /\ calculation.built /\ calculation.dynamic_calculator # None
    /\ RLe(calculation.static_calculator.buried_depth, calculation.static_calculator.height)
    => Abs(MassKg(calculation.dynamic_calculator.total_mass) - MassFromSelfWeight) * 100
            <= MassFromSelfWeight

\* C25: for any interleaving of two calculate_response_curve calls, or of a
\* sweep and a concurrent run_analysis, on one DynamicAnalysis object: once
\* all calls have finished the excitation frequency of the object is the
\* configured one, and run_analysis has reported the amplitude for the
\* configured frequency.
C25_ParallelSweepSafe ==
    (\A t \in Threads : worker[t].pc = "done") =>
        /\ da.frequency = DefaultDynamic.frequency
        /\ \A t \in Threads :
              worker[t].op = "run_analysis" =>
                  worker[t].ret.value.amplitude = calculate_amplitude(DefaultDynamic).value

\* C26: when calculate_response_curve terminates abnormally (an amplitude
\* computation raises part-way through the sweep), the excitation frequency
\* of the object is the value it had before the call.
C26_RestoredAfterError ==
    dynamic_ret.op = "calculate_response_curve" /\ dynamic_ret.raised =>
        da.frequency = sweep.entry.frequency

\* the contact length and width that the eccentricity leaves
ContactLength == RSub(sa.length, RMul(RInt(2), AbsEx))
ContactWidth == RSub(sa.width, RMul(RInt(2), AbsEy))

\* C27: whenever the eccentricity removes the contact length or the contact
\* width (L - 2|ex| <= 0 or W - 2|ey| <= 0, both negative included), the
\* bearing check reports is_safe = false; and a finite reported pressure is
\* never smaller than the uniform pressure (self_weight + static_load)/(L*W).
C27_NoContactIsUnsafe ==
    Returned("bearing_capacity") =>
        /\ RLe(ContactLength, Zero) \/ RLe(ContactWidth, Zero)
              => ~static_ret.value.is_safe
        /\ ~IsInf(static_ret.value.actual_pressure)
              => RGe(static_ret.value.actual_pressure,
                     RDiv(TotalLoad, RMul(sa.length, sa.width)))

(***************************************************************************)
(* Python floats as they are: IEEE 754 binary64, for values that are       *)
(* finite and not negative, or +infinity.  A natural number is the list    *)
(* of its digits in base 2^14, the lowest first; a float is a significand  *)
(* of 53 bits and the power of two it is multiplied by.  Every operation   *)
(* rounds to nearest, ties to even.  Subnormal numbers and overflow are    *)
(* out of the range of the inputs.                                         *)
(***************************************************************************)
SignificandBits == 53

\* the base of the digits, and the bits of one digit
Limb == 2^14
LimbBits == CHOOSE k \in 1..30 : 2^k = Limb

RECURSIVE LTrim(_)
LTrim(a) == IF a = <<>> \/ a[Len(a)] # 0 THEN a ELSE LTrim(SubSeq(a, 1, Len(a) - 1))

\* the digits of n
RECURSIVE Limbs(_)
Limbs(n) == IF n = 0 THEN <<>> ELSE <<n % Limb>> \o Limbs(n \div Limb)

\* a + b + c for a carry c
RECURSIVE LAddC(_, _, _)
LAddC(a, b, c) ==
    IF a = <<>> /\ b = <<>> THEN (IF c = 0 THEN <<>> ELSE <<c>>)
    ELSE LET s == (IF a = <<>> THEN 0 ELSE a[1]) + (IF b = <<>> THEN 0 ELSE b[1]) + c
         IN  <<s % Limb>> \o LAddC(IF a = <<>> THEN a ELSE Tail(a),
                                   IF b = <<>> THEN b ELSE Tail(b), s \div Limb)

LAdd(a, b) == LAddC(a, b, 0)

\* a - b - c for a >= b + c and a borrow c, not trimmed
RECURSIVE LSubC(_, _, _)
LSubC(a, b, c) ==
    IF a = <<>> THEN <<>>
    ELSE LET s == a[1] - (IF b = <<>> THEN 0 ELSE b[1]) - c
         IN  <<s % Limb>> \o LSubC(Tail(a), IF b = <<>> THEN b ELSE Tail(b),
                                   IF s < 0 THEN 1 ELSE 0)

LSub(a, b) == LTrim(LSubC(a, b, 0))

\* a >= b, from the highest digit
RECURSIVE LGeAt(_, _, _)
LGeAt(a, b, i) ==
    IF i = 0 THEN TRUE
    ELSE IF a[i] # b[i] THEN a[i] > b[i]
    ELSE LGeAt(a, b, i - 1)

LGe(a, b) == IF Len(a) # Len(b) THEN Len(a) > Len(b) ELSE LGeAt(a, b, Len(a))

\* a * 2^k
LShl(a, k) ==
    LET whole == k \div LimbBits
        s == k % LimbBits
        n == Len(a)
    IN  LTrim([i \in 1..whole |-> 0] \o
              [i \in 1..(n + 1) |->
                  (((IF i <= n THEN a[i] ELSE 0) * 2^s) % Limb)
                      + (IF i > 1 THEN a[i - 1] \div 2^(LimbBits - s) ELSE 0)])

\* a \div 2^k
LShr(a, k) ==
    LET whole == k \div LimbBits
        s == k % LimbBits
        n == Len(a) - whole
    IN  IF n <= 0 THEN <<>>
        ELSE LTrim([i \in 1..n |->
                      (a[whole + i] \div 2^s)
                          + (IF i < n THEN (a[whole + i + 1] % 2^s) * 2^(LimbBits - s)
                             ELSE 0)])

\* the number of bits of a
LBitLen(a) ==
    IF a = <<>> THEN 0
    ELSE LimbBits * (Len(a) - 1)
            + (CHOOSE k \in 1..LimbBits : 2^(k - 1) <= a[Len(a)] /\ a[Len(a)] < 2^k)

\* bit i of a, the lowest being bit 1
LBit(a, i) == (a[(i - 1) \div LimbBits + 1] \div 2^((i - 1) % LimbBits)) % 2

\* the sum of the products a[i] * b[j] with i + j = k + 1, from i on
RECURSIVE LColumn(_, _, _, _)
LColumn(a, b, k, i) ==
    IF i > Len(a) THEN 0
    ELSE (IF k + 1 - i >= 1 /\ k + 1 - i <= Len(b) THEN a[i] * b[k + 1 - i] ELSE 0)
            + LColumn(a, b, k, i + 1)

\* the digits of a list of column sums
RECURSIVE LCarry(_, _)
LCarry(columns, c) ==
    IF columns = <<>> THEN (IF c = 0 THEN <<>> ELSE <<c>>)
    ELSE <<(columns[1] + c) % Limb>> \o LCarry(Tail(columns), (columns[1] + c) \div Limb)

\* a * b, for factors of four digits at most
LMul(a, b) ==
    IF a = <<>> \/ b = <<>> THEN <<>>
    ELSE LTrim(LCarry([k \in 1..(Len(a) + Len(b) - 1) |-> LColumn(a, b, k, 1)], 0))

\* long division by d of one digit below a remainder r: the steps for the
\* bits count, count - 1, ... 1 of the digit
RECURSIVE LDivBits(_, _, _, _)
RECURSIVE LDivBit(_, _, _, _)
LDivBits(digit, d, count, r) ==
    IF count = 0 THEN [q |-> 0, r |-> r]
    ELSE LDivBit(digit, d, count, LAddC(LShl(r, 1), <<>>, (digit \div 2^(count - 1)) % 2))

LDivSet(bit, low) == [q |-> bit + low.q, r |-> low.r]

LDivBit(digit, d, count, shifted) ==
    IF LGe(shifted, d)
    THEN LDivSet(2^(count - 1), LDivBits(digit, d, count - 1, LSub(shifted, d)))
    ELSE LDivBits(digit, d, count - 1, shifted)

LDivJoin(q, low) == [q |-> LTrim(<<low.q>> \o q), r |-> low.r]

\* one more digit below a quotient and a remainder
LDivDigit(digit, d, above) ==
    IF above.r = <<>> /\ digit = 0 THEN [q |-> LTrim(<<0>> \o above.q), r |-> <<>>]
    ELSE LDivJoin(above.q, LDivBits(digit, d, LimbBits, above.r))

\* the quotient and the remainder by d of the digits of n above digit j
RECURSIVE LDivAbove(_, _, _)
LDivAbove(n, d, j) ==
    IF j >= Len(n) THEN [q |-> <<>>, r |-> <<>>]
    ELSE LDivDigit(n[j + 1], d, LDivAbove(n, d, j + 1))

\* the quotient and the remainder of n by d
LDivMod(n, d) == LDivAbove(n, d, 0)

Float64(m, e) == [m |-> m, e |-> e, special |-> "no"]
Inf64 == [m |-> <<>>, e |-> 0, special |-> "inf"]
Zero64 == Float64(<<>>, 0)

\* kept * 2^e, where kept is m without its lowest k bits, rounded by them
RoundBits(m, e, sticky, k, kept) ==
    LET rest == LSub(m, LShl(kept, k))
        half == LShl(<<1>>, k - 1)
        up == IF rest = half THEN sticky \/ (kept[1] % 2) = 1
              ELSE LGe(rest, half)
        rounded == IF up THEN LAddC(kept, <<>>, 1) ELSE kept
    IN  IF LBitLen(rounded) > SignificandBits
        THEN Float64(LShr(rounded, 1), e + k + 1)
        ELSE Float64(rounded, e + k)

\* m * 2^e, plus a nonzero fraction of 2^e below it when sticky, rounded
Round64(m, e, sticky) ==
    IF m = <<>> THEN Zero64
    ELSE IF LBitLen(m) <= SignificandBits
    THEN Float64(LShl(m, SignificandBits - LBitLen(m)), e - (SignificandBits - LBitLen(m)))
    ELSE RoundBits(m, e, sticky, LBitLen(m) - SignificandBits,
                   LShr(m, LBitLen(m) - SignificandBits))

FromNat(n) == Round64(Limbs(n), 0, FALSE)

Mul64(x, y) == Round64(LMul(x.m, y.m), x.e + y.e, FALSE)

\* the significands of x and y over the smaller of the two exponents
Aligned(x, y) ==
    LET e == IF x.e <= y.e THEN x.e ELSE y.e
    IN  [x |-> LShl(x.m, x.e - e), y |-> LShl(y.m, y.e - e), e |-> e]

AddAligned(a) == Round64(LAdd(a.x, a.y), a.e, FALSE)
Add64(x, y) == IF x.m = <<>> THEN y ELSE IF y.m = <<>> THEN x ELSE AddAligned(Aligned(x, y))

\* x - y for x >= y
SubAligned(a) == Round64(LSub(a.x, a.y), a.e, FALSE)
Sub64(x, y) == IF y.m = <<>> THEN x ELSE SubAligned(Aligned(x, y))

GeAligned(a) == LGe(a.x, a.y)
Ge64(x, y) ==
    IF x.special = "inf" THEN TRUE
    ELSE IF y.special = "inf" THEN FALSE
    ELSE IF y.m = <<>> THEN TRUE
    ELSE IF x.m = <<>> THEN FALSE
    ELSE GeAligned(Aligned(x, y))

Gt64(x, y) == ~Ge64(y, x)

\* x / y for y > 0: a quotient of 56 bits or more, and whether it is exact
Quotient64(x, y, division) == Round64(division.q, x.e - y.e - 56, division.r # <<>>)
Div64(x, y) ==
    IF x.m = <<>> THEN Zero64 ELSE Quotient64(x, y, LDivMod(LShl(x.m, 56), y.m))

\* the float that the decimal literal n/d is, d a power of ten
Literal64(n, d) == Div64(FromNat(n), FromNat(d))

(***************************************************************************)
(* The sliding check on Python floats.  The decimal inputs are the floats  *)
(* their literals denote; the static load is a whole number of kN.         *)
(***************************************************************************)
MaxSlidingLoad == 7

FloatLengths == {Literal64(1, 1), Literal64(2, 1)}
FloatHeights == {Literal64(0, 1), Literal64(1, 1)}
FloatBuriedDepths == {Literal64(0, 1), Literal64(15, 10)}
FloatStaticLoads == {FromNat(p) : p \in 0..MaxSlidingLoad}
FloatFrictions == {Literal64(13, 100), Literal64(14, 100), Literal64(3, 10), Literal64(45, 100)}

\* calculate_self_weight on floats
SoilWeightFloat(self) ==
    IF Gt64(self.buried_depth, self.height)
    THEN Mul64(Mul64(Mul64(self.length, self.width),
                     Sub64(self.buried_depth, self.height)), FromNat(soil_density))
    ELSE Zero64

calculate_self_weight_float(self) ==
    Add64(Mul64(Mul64(Mul64(self.length, self.width), self.height),
                FromNat(concrete_density)),
          SoilWeightFloat(self))

\* StaticAnalysis.__init__ on floats: the fields that the sliding check reads
StaticAnalysisFloat(length, width, height, buried_depth, static_load, friction_coefficient) ==
    [length |-> length, width |-> width, height |-> height,
     buried_depth |-> buried_depth, static_load |-> static_load,
     friction_coefficient |-> friction_coefficient,
     self_weight |-> calculate_self_weight_float(
         [length |-> length, width |-> width, height |-> height,
          buried_depth |-> buried_depth])]

\* sliding_stability on floats
SlidingFactorFloat(anti_sliding_force, horizontal_load) ==
    IF Gt64(horizontal_load, Zero64) THEN Div64(anti_sliding_force, horizontal_load)
    ELSE Inf64

SlidingResultFloat(safety_factor) ==
    Return([safety_factor |-> safety_factor,
            is_safe |-> Ge64(safety_factor, Literal64(13, 10))])

sliding_stability_float(self) ==
    SlidingResultFloat(
        SlidingFactorFloat(
            Mul64(Add64(self.self_weight, self.static_load), self.friction_coefficient),
            Mul64(self.static_load, Literal64(1, 10))))

SlidingStabilityFloat ==
    /\ static_ret' = Called("sliding_stability", sliding_stability_float(sa))
    /\ UNCHANGED <<sa, dynamicVars>>

InitSliding ==
    /\ \E l \in FloatLengths, h \in FloatHeights, d \in FloatBuriedDepths,
          p \in FloatStaticLoads, mu \in FloatFrictions :
            sa = StaticAnalysisFloat(l, Literal64(1, 1), h, d, p, mu)
    /\ static_ret = NoCall
    /\ da = DefaultDynamic
    /\ sweep = IdleFrame(DefaultDynamic, None)
    /\ dynamic_ret = NoCall
    /\ InitHistory
    /\ InitNoValidation
    /\ InitRest

NextSliding == SlidingStabilityFloat /\ UNCHANGED otherVars

SpecSliding == InitSliding /\ [][NextSliding]_vars

\* 10 * x as Python computes it
TenTimes(x) == Mul64(FromNat(10), x)

\* C28: the sliding safety factor is at least 10 * friction_coefficient for
\* every static_load > 0 and self_weight >= 0; hence for every
\* friction_coefficient >= 0.13 the sliding check passes, for all geometries
\* and loads.
C28_SlidingAtLeastTenTimesFriction ==
    static_ret.op = "sliding_stability" /\ sa.static_load # Zero64 =>
        /\ Ge64(static_ret.value.safety_factor, TenTimes(sa.friction_coefficient))
        /\ Ge64(sa.friction_coefficient, Literal64(13, 100)) => static_ret.value.is_safe

\* C29: export_report always calls generate_report in plain-report mode
\* (is_calculation_book false) and export_calculation_book always in
\* calculation-book mode, whichever exports were performed earlier on the
\* same stored results.
C29_ExportModes ==
    report.called =>
        /\ report.action = "export_report" => ~report.call.is_calculation_book
        /\ report.action = "export_calculation_book" => report.call.is_calculation_book

\* the calculation gives these static and dynamic results
SameResults(run, results) ==
    /\ ~run.raised
    /\ run.results.static_results = results.static_results
    /\ run.results.dynamic_results = results.dynamic_results

\* C30: whenever an export generates a report, the input parameters handed
\* to generate_report are the parameters from which the exported static and
\* dynamic results were computed: the calculation of these parameters gives
\* these results (after any sequence of run_calculation, edits, clear_inputs,
\* open_project, load_example and new_project).
C30_ReportParametersMatchResults ==
    report.called =>
        SameResults(run_calculation(report.call.params, window.current_parameters),
                    report.call.results)

====
